---- MODULE Spec2Model ----
(***************************************************************************)
(* JWT authentication API (Hono on Cloudflare Workers, jose for the        *)
(* cryptography): login / refresh / verify / protected for HS256, RS256    *)
(* and ES256.  The server keeps no state between requests; what persists   *)
(* is the configuration (env), the clock, and the tokens clients hold.     *)
(***************************************************************************)
EXTENDS Integers, Sequences, FiniteSets, TLC

VARIABLES env, now, wallet, pc, req, resp, ctx, used

\* The request log: the DB binding, the log writes handed to waitUntil and not yet settled,
\* the rows of request_logs, the request ids whose write failed, and the id of the request
\* being served.
VARIABLES db, writes, rows, lost, requestId

logvars == <<db, writes, rows, lost, requestId>>

\* Requests in flight at the same time, each with its own context.
VARIABLES slots

\* The password subsystem: its userStore and the password requests in flight.
VARIABLES userStore, logins

auxvars == <<slots, userStore, logins>>

jwtvars == <<env, now, wallet, pc, req, resp, ctx, used>>

vars ==
    <<env, now, wallet, pc, req, resp, ctx, used, db, writes, rows, lost, requestId,
      slots, userStore, logins>>

(* ----------------------------------------------------------------------- *)
(* Values                                                                  *)
(* ----------------------------------------------------------------------- *)

\* JavaScript undefined (an unset binding, a missing JSON field).
Undefined == "undefined"

\* src/utils/jwt.ts: type Algorithm
Algorithms == {"HS256", "RS256", "ES256"}

TokenTypes == {"access", "refresh"}

\* absent value of record type (no token, no payload, no body)
None == [kind |-> "none"]

(* ----------------------------------------------------------------------- *)
(* Key material (bindings) and its import, src/utils/jwt.ts 27-61          *)
(* ----------------------------------------------------------------------- *)

\* A configured HS256 secret: a plain string binding.
SecretBinding(id) == [kind |-> "secret", id |-> id]

\* A configured RS256/ES256 key: a PEM block of the given type, stored Base64-encoded.
PemBinding(family, type) ==
    [kind |-> "base64", pem |-> [kind |-> "pem", family |-> family, type |-> type]]

\* JavaScript truthiness of a binding: an unset binding is falsy.
Truthy(binding) == binding # None

\* decodeBase64Key: Base64 text back to the PEM text.
decodeBase64Key(base64Key) == base64Key.pem

\* getHS256Key: the UTF-8 bytes of the secret.
getHS256Key(secret) == [kind |-> "bytes", id |-> secret.id]

\* importPrivateKey: jose.importPKCS8 of the decoded PEM; a PEM that is not a PKCS#8 key of
\* the algorithm's family cannot be imported.
importPrivateKey(base64Key, algorithm) ==
    LET pem == decodeBase64Key(base64Key)
    IN  IF pem.type = "PKCS8" /\ pem.family = algorithm
        THEN [kind |-> "CryptoKey", type |-> "private", family |-> pem.family]
        ELSE None

\* Mutant of importPublicKey: the public key is imported with importPKCS8.
importPublicKeyAsPKCS8(base64Key, algorithm) ==
    LET pem == decodeBase64Key(base64Key)
    IN  IF pem.type = "PKCS8" /\ pem.family = algorithm
        THEN [kind |-> "CryptoKey", type |-> "public", family |-> pem.family]
        ELSE None

\* importPublicKey: jose.importSPKI of the decoded PEM.
importPublicKey(base64Key, algorithm) ==
    LET pem == decodeBase64Key(base64Key)
    IN  IF pem.type = "SPKI" /\ pem.family = algorithm
        THEN [kind |-> "CryptoKey", type |-> "public", family |-> pem.family]
        ELSE None

(* ----------------------------------------------------------------------- *)
(* Tokens                                                                  *)
(* ----------------------------------------------------------------------- *)

\* TokenPayload, src/utils/jwt.ts 10-16
Claims(sub, email, type, iat, exp) ==
    [sub |-> sub, email |-> email, type |-> type, iat |-> iat, exp |-> exp]

\* The signature value a signing primitive produces over header and claims.  prim is the
\* primitive (HMAC-SHA256, RSASSA-PKCS1-v1_5, ECDSA P-256, named by their alg), signer
\* identifies the key: the secret bytes for HMAC, the key pair for RSA and ECDSA.
Signature(prim, signer, hdr, claims) ==
    [prim |-> prim, signer |-> signer, hdr |-> hdr, claims |-> claims]

\* A compact JWS: header.claims.signature
Jwt(hdr, claims, sig) == [kind |-> "jwt", hdr |-> hdr, claims |-> claims, sig |-> sig]

\* A bearer string that is not three dot-separated segments, e.g. 'invalid-token'.
Garbage == [kind |-> "text", text |-> "invalid-token"]

\* The empty string.
Empty == [kind |-> "text", text |-> ""]

\* The key material a primitive computes with: the bytes of a secret, or one half of a key pair.
Material(key) ==
    IF key.kind = "bytes" THEN [id |-> key.id, half |-> "secret"]
    ELSE [id |-> key.family, half |-> key.type]

\* The private half that belongs to a public key.
PrivateOf(key) == [id |-> key.family, half |-> "private"]

(* ----------------------------------------------------------------------- *)
(* Token codec, src/utils/jwt.ts 63-165 (jose SignJWT / jwtVerify)         *)
(* ----------------------------------------------------------------------- *)

\* A time span such as '15m' or '7d': a number and a unit.
Span(n, unit) == [n |-> n, unit |-> unit]

\* jose secs(): a time span in seconds.
secs(span) ==
    CASE span.unit = "s" -> span.n
      [] span.unit = "m" -> span.n * 60
      [] span.unit = "h" -> span.n * 60 * 60
      [] span.unit = "d" -> span.n * 60 * 60 * 24
      [] span.unit = "w" -> span.n * 60 * 60 * 24 * 7

\* Mutant of accessTokenExpiry: a default of one hour.
accessTokenExpiryHour == Span(1, "h")

\* accessTokenExpiry = '15m' (the routes pass no override)
accessTokenExpiry == Span(15, "m")

\* refreshTokenExpiry = '7d'
refreshTokenExpiry == Span(7, "d")

\* Mutant of SignJWT: the protected header always declares HS256, whatever key signs.
SignJWTFixedHeader(payload, alg, expiry, key, t) ==
    LET claims == Claims(payload.sub, payload.email, payload.type, t, t + secs(expiry))
    IN  Jwt("HS256", claims, Signature(alg, Material(key), "HS256", claims))

\* new jose.SignJWT(payload).setProtectedHeader({alg}).setIssuedAt().setExpirationTime(expiry)
\* .sign(key) at clock reading t.
SignJWT(payload, alg, expiry, key, t) ==
    LET claims == Claims(payload.sub, payload.email, payload.type, t, t + secs(expiry))
    IN  Jwt(alg, claims, Signature(alg, Material(key), alg, claims))

Thrown(message) == [ok |-> FALSE, error |-> message, token |-> None]

Returned(token) == [ok |-> TRUE, error |-> "", token |-> token]

\* generateAccessToken(payload, config) at clock reading t
generateAccessToken(payload, config, t) ==
    LET tokenPayload == [sub |-> payload.sub, email |-> payload.email, type |-> "access"]
    IN  IF config.algorithm = "HS256"
        THEN IF ~Truthy(config.secret)
             THEN Thrown("Secret is required for HS256")
             ELSE Returned(SignJWT(tokenPayload, "HS256", accessTokenExpiry,
                                   getHS256Key(config.secret), t))
        ELSE IF ~Truthy(config.privateKey)
             THEN Thrown("Private key is required for RS256/ES256")
             ELSE Returned(SignJWT(tokenPayload, config.algorithm, accessTokenExpiry,
                                   importPrivateKey(config.privateKey, config.algorithm), t))

\* generateRefreshToken(payload, config) at clock reading t
generateRefreshToken(payload, config, t) ==
    LET tokenPayload == [sub |-> payload.sub, email |-> payload.email, type |-> "refresh"]
    IN  IF config.algorithm = "HS256"
        THEN IF ~Truthy(config.secret)
             THEN Thrown("Secret is required for HS256")
             ELSE Returned(SignJWT(tokenPayload, "HS256", refreshTokenExpiry,
                                   getHS256Key(config.secret), t))
        ELSE IF ~Truthy(config.privateKey)
             THEN Thrown("Private key is required for RS256/ES256")
             ELSE Returned(SignJWT(tokenPayload, config.algorithm, refreshTokenExpiry,
                                   importPrivateKey(config.privateKey, config.algorithm), t))

\* Mutant of AlgAllowed: the verifier lets the token's header choose the algorithm.
AlgAllowedAny(hdr, algorithms) == TRUE

\* jose: the token's declared alg must be one of options.algorithms.
AlgAllowed(hdr, algorithms) == hdr \in algorithms

\* Mutant of SignatureVerifies: the signature is checked against the header only, not the
\* claims.
SignatureVerifiesHeaderOnly(token, alg, key) ==
    /\ token.sig.prim = alg
    /\ token.sig.hdr = token.hdr
    /\ IF alg = "HS256"
       THEN token.sig.signer = Material(key)
       ELSE key.kind = "CryptoKey" /\ key.type = "public" /\ key.family = alg
            /\ token.sig.signer = PrivateOf(key)

\* jose: the signature check of primitive alg with the given key over the token's own
\* header and claims segments.
SignatureVerifies(token, alg, key) ==
    /\ token.sig.prim = alg
    /\ token.sig.hdr = token.hdr
    /\ token.sig.claims = token.claims
    /\ IF alg = "HS256"
       THEN token.sig.signer = Material(key)
       ELSE key.kind = "CryptoKey" /\ key.type = "public" /\ key.family = alg
            /\ token.sig.signer = PrivateOf(key)

\* Mutant of NotExpired: a token is still accepted at the instant of its exp.
NotExpiredInclusive(exp, t) == exp >= t

\* jose: the exp claim must lie after the current time.
NotExpired(exp, t) == exp > t

Failed(message) == [ok |-> FALSE, error |-> message, payload |-> None]

Verified(payload) == [ok |-> TRUE, error |-> "", payload |-> payload]

\* jose.jwtVerify(token, key, { algorithms }) at clock reading t
jwtVerify(token, key, algorithms, t) ==
    IF token.kind # "jwt" THEN Failed("Invalid Compact JWS")
    ELSE IF ~AlgAllowed(token.hdr, algorithms)
         THEN Failed("\"alg\" (Algorithm) Header Parameter value not allowed")
    ELSE IF ~SignatureVerifies(token, token.hdr, key)
         THEN Failed("signature verification failed")
    ELSE IF ~NotExpired(token.claims.exp, t)
         THEN Failed("\"exp\" claim timestamp check failed")
    ELSE Verified(token.claims)

\* verifyToken(token, config) at clock reading t
verifyToken(token, config, t) ==
    IF config.algorithm = "HS256"
    THEN IF ~Truthy(config.secret)
         THEN Failed("Secret is required for HS256")
         ELSE jwtVerify(token, getHS256Key(config.secret), {"HS256"}, t)
    ELSE IF ~Truthy(config.publicKey)
         THEN Failed("Public key is required for RS256/ES256")
         ELSE jwtVerify(token, importPublicKey(config.publicKey, config.algorithm),
                        {config.algorithm}, t)

\* decodeToken(token): the claims, unverified; null when the token cannot be parsed
decodeToken(token) == IF token.kind = "jwt" THEN token.claims ELSE None

(* ----------------------------------------------------------------------- *)
(* Verification middleware, src/middleware/jwt-verify.ts                   *)
(* ----------------------------------------------------------------------- *)

\* A word of a header, e.g. the scheme 'Bearer'.
Word(text) == [kind |-> "text", text |-> text]

\* An Authorization header, given by its parts between single spaces.
Header(parts) == [kind |-> "header", parts |-> parts]

\* JWTConfig / JWTMiddlewareConfig
Config(algorithm, secret, privateKey, publicKey) ==
    [algorithm |-> algorithm, secret |-> secret,
     privateKey |-> privateKey, publicKey |-> publicKey]

\* Mutant of extractToken: the scheme is compared without regard to case.
extractTokenAnyCase(authHeader) ==
    IF authHeader = None THEN None
    ELSE LET parts == authHeader.parts
         IN  IF Len(parts) # 2 \/ parts[1] \notin {Word("Bearer"), Word("bearer")} THEN None
             ELSE parts[2]

\* extractToken(c): the bearer token, or the empty string / null (both falsy) when there
\* is none.
extractToken(authHeader) ==
    IF authHeader = None THEN None
    ELSE LET parts == authHeader.parts
         IN  IF Len(parts) # 2 \/ parts[1] # Word("Bearer") THEN None
             ELSE parts[2]

\* !token
Falsy(token) == token = None \/ token = Empty

\* throw new HTTPException(401, { message })
HTTPException(state, message, verified) ==
    [next |-> FALSE, state |-> state, status |-> 401, message |-> message,
     jwtPayload |-> None, verified |-> verified]

\* c.set('jwtPayload', payload); await next()
Proceed(payload) ==
    [next |-> TRUE, state |-> "Valid", status |-> 200, message |-> "",
     jwtPayload |-> payload, verified |-> TRUE]

\* Mutant of NotAccess: the access middleware accepts any token type.
NotAccessNever(payload) == FALSE

\* payload.type !== 'access' (jwtAuth) and payload.type !== 'refresh' (refreshTokenAuth)
NotAccess(payload) == payload.type # "access"

NotRefresh(payload) == payload.type # "refresh"

\* Mutant of jwtAuth: the downstream handler is called before the token type is looked at.
jwtAuthNextFirst(config, authHeader, t) ==
    LET token == extractToken(authHeader)
    IN  IF Falsy(token)
        THEN HTTPException("ExtractFailed", "Authorization header is missing or invalid", FALSE)
        ELSE LET result == verifyToken(token, config, t)
             IN  IF ~result.ok
                 THEN HTTPException("CryptoVerifyFailed", "Invalid or expired token", FALSE)
                 ELSE IF NotAccess(result.payload)
                 THEN [HTTPException("TypeMismatch",
                                     "Invalid token type. Access token required.", TRUE)
                         EXCEPT !.next = TRUE, !.jwtPayload = result.payload]
                 ELSE Proceed(result.payload)

\* jwtAuth(config) applied to a request with the given Authorization header at time t
jwtAuth(config, authHeader, t) ==
    LET token == extractToken(authHeader)
    IN  IF Falsy(token)
        THEN HTTPException("ExtractFailed", "Authorization header is missing or invalid", FALSE)
        ELSE LET result == verifyToken(token, config, t)
             IN  IF ~result.ok
                 THEN HTTPException("CryptoVerifyFailed", "Invalid or expired token", FALSE)
                 ELSE IF NotAccess(result.payload)
                 THEN HTTPException("TypeMismatch",
                                    "Invalid token type. Access token required.", TRUE)
                 ELSE Proceed(result.payload)

\* Mutant of refreshTokenAuth: no catch block, a failure of verifyToken leaves the
\* middleware as the raw error it is.
refreshTokenAuthRaw(config, authHeader, t) ==
    LET token == extractToken(authHeader)
    IN  IF Falsy(token)
        THEN HTTPException("ExtractFailed", "Authorization header is missing or invalid", FALSE)
        ELSE LET result == verifyToken(token, config, t)
             IN  IF ~result.ok
                 THEN [HTTPException("CryptoVerifyFailed", result.error, FALSE)
                         EXCEPT !.status = 500]
                 ELSE IF NotRefresh(result.payload)
                 THEN HTTPException("TypeMismatch",
                                    "Invalid token type. Refresh token required.", TRUE)
                 ELSE Proceed(result.payload)

\* refreshTokenAuth(config)
refreshTokenAuth(config, authHeader, t) ==
    LET token == extractToken(authHeader)
    IN  IF Falsy(token)
        THEN HTTPException("ExtractFailed", "Authorization header is missing or invalid", FALSE)
        ELSE LET result == verifyToken(token, config, t)
             IN  IF ~result.ok
                 THEN HTTPException("CryptoVerifyFailed", "Invalid or expired refresh token",
                                    FALSE)
                 ELSE IF NotRefresh(result.payload)
                 THEN HTTPException("TypeMismatch",
                                    "Invalid token type. Refresh token required.", TRUE)
                 ELSE Proceed(result.payload)

\* The binding each route's key getter reads: (c) => c.env.JWT_<ALG>_SECRET / _PUBLIC_KEY
VerifyConfig(e, alg) ==
    CASE alg = "HS256" -> Config("HS256", e.JWT_HS256_SECRET, None, None)
      [] alg = "RS256" -> Config("RS256", None, None, e.JWT_RS256_PUBLIC_KEY)
      [] alg = "ES256" -> Config("ES256", None, None, e.JWT_ES256_PUBLIC_KEY)

\* Mutant of AccessAuth: the claims are read with decodeToken, without verification.
AccessAuthDecodeOnly(e, alg, authHeader, t) ==
    LET token  == extractToken(authHeader)
        claims == IF Falsy(token) THEN None ELSE decodeToken(token)
    IN  IF Falsy(token)
        THEN HTTPException("ExtractFailed", "Authorization header is missing or invalid", FALSE)
        ELSE IF claims = None
        THEN HTTPException("CryptoVerifyFailed", "Invalid or expired token", FALSE)
        ELSE IF NotAccess(claims)
        THEN HTTPException("TypeMismatch", "Invalid token type. Access token required.", FALSE)
        ELSE [Proceed(claims) EXCEPT !.verified = FALSE]

\* hs256Auth / rs256Auth / es256Auth
AccessAuth(e, alg, authHeader, t) == jwtAuth(VerifyConfig(e, alg), authHeader, t)

\* Mutant of RefreshAuth: rotation, a refresh token is good for one refresh only.
RefreshAuthOnce(e, alg, authHeader, t) ==
    IF extractToken(authHeader) \in used
    THEN HTTPException("CryptoVerifyFailed", "Invalid or expired refresh token", FALSE)
    ELSE refreshTokenAuth(VerifyConfig(e, alg), authHeader, t)

\* hs256RefreshAuth / rs256RefreshAuth / es256RefreshAuth
RefreshAuth(e, alg, authHeader, t) == refreshTokenAuth(VerifyConfig(e, alg), authHeader, t)

(* ----------------------------------------------------------------------- *)
(* Responses and the error handler, src/index.ts 173-196                   *)
(* ----------------------------------------------------------------------- *)

\* A JSON response body; fields a response does not carry are empty.
NoBody ==
    [error |-> "", message |-> "", algorithm |-> "", accessToken |-> None,
     refreshToken |-> None, expiresIn |-> None, valid |-> FALSE, payload |-> None,
     user |-> None, data |-> None, keys |-> <<>>]

\* c.json(body, status)
Json(body, status) == [status |-> status, body |-> body]

\* A thrown error: an HTTPException carries a numeric status, a plain Error does not.
PlainError(message) == [hasStatus |-> FALSE, status |-> 0, message |-> message]

HttpError(status, message) == [hasStatus |-> TRUE, status |-> status, message |-> message]

\* app.onError((err, c) => ...)
onError(err) ==
    IF err.hasStatus
    THEN Json([NoBody EXCEPT
                 !.error = IF err.status >= 500 THEN "Internal Server Error"
                           ELSE "Request Error",
                 !.message = err.message],
              err.status)
    ELSE Json([NoBody EXCEPT !.error = "Internal Server Error", !.message = err.message], 500)

(* ----------------------------------------------------------------------- *)
(* Routes, src/routes/hs256.ts, rs256.ts, es256.ts                         *)
(* ----------------------------------------------------------------------- *)

\* A parsed JSON login body; a field the body omits is undefined.
LoginBody(email, password) == [kind |-> "json", email |-> email, password |-> password]

\* A request body that is not JSON.
Malformed == [kind |-> "malformed", email |-> Undefined, password |-> Undefined]

\* The JWTConfig the login and refresh handlers of each algorithm build.
IssueConfig(e, alg) ==
    CASE alg = "HS256" -> Config("HS256", e.JWT_HS256_SECRET, None, None)
      [] alg = "RS256" ->
           Config("RS256", None, e.JWT_RS256_PRIVATE_KEY, e.JWT_RS256_PUBLIC_KEY)
      [] alg = "ES256" ->
           Config("ES256", None, e.JWT_ES256_PRIVATE_KEY, e.JWT_ES256_PUBLIC_KEY)

\* The tail shared by login and refresh: generate the pair and answer with it.
IssuePair(message, payload, config, t) ==
    LET access  == generateAccessToken(payload, config, t)
        refresh == generateRefreshToken(payload, config, t)
    IN  IF ~access.ok THEN onError(PlainError(access.error))
        ELSE IF ~refresh.ok THEN onError(PlainError(refresh.error))
        ELSE Json([NoBody EXCEPT !.message = message,
                                 !.algorithm = config.algorithm,
                                 !.accessToken = access.token,
                                 !.refreshToken = refresh.token,
                                 !.expiresIn = Span(15, "m")],
                  200)

\* Mutant of CredentialsMismatch: && in place of ||, so one matching field is enough.
CredentialsMismatchBoth(e, email, password) ==
    email # e.TEST_USER_EMAIL /\ password # e.TEST_USER_PASSWORD

\* email !== c.env.TEST_USER_EMAIL || password !== c.env.TEST_USER_PASSWORD
CredentialsMismatch(e, email, password) ==
    email # e.TEST_USER_EMAIL \/ password # e.TEST_USER_PASSWORD

\* post('/login')
login(e, alg, body, t) ==
    IF body.kind # "json" THEN onError(PlainError("Unexpected token in JSON"))
    ELSE IF CredentialsMismatch(e, body.email, body.password)
    THEN Json([NoBody EXCEPT !.error = "Invalid credentials"], 401)
    ELSE IssuePair("Login successful", [sub |-> "user-1", email |-> body.email],
                   IssueConfig(e, alg), t)

\* Mutant of refresh: the new pair is stamped with the issuance time of the presented token.
refreshCopyingStamps(e, alg, jwtPayload, t) ==
    IssuePair("Token refreshed", [sub |-> jwtPayload.sub, email |-> jwtPayload.email],
              IssueConfig(e, alg), jwtPayload.iat)

\* post('/refresh') behind the refresh middleware
refresh(e, alg, jwtPayload, t) ==
    IssuePair("Token refreshed", [sub |-> jwtPayload.sub, email |-> jwtPayload.email],
              IssueConfig(e, alg), t)

\* Mutant of verify: the exp echoed is the iat.
verifyEchoingIat(alg, jwtPayload) ==
    Json([NoBody EXCEPT !.valid = TRUE, !.algorithm = alg,
                        !.payload = Claims(jwtPayload.sub, jwtPayload.email, jwtPayload.type,
                                           jwtPayload.iat, jwtPayload.iat)],
         200)

\* get('/verify') behind the access middleware
verify(alg, jwtPayload) ==
    Json([NoBody EXCEPT !.valid = TRUE, !.algorithm = alg,
                        !.payload = Claims(jwtPayload.sub, jwtPayload.email, jwtPayload.type,
                                           jwtPayload.iat, jwtPayload.exp)],
         200)

\* get('/protected') behind the access middleware
protected(alg, jwtPayload, t) ==
    Json([NoBody EXCEPT !.message = "Access granted to protected resource",
                        !.algorithm = alg,
                        !.user = [id |-> jwtPayload.sub, email |-> jwtPayload.email],
                        !.data = [secretInfo |-> alg, timestamp |-> t]],
         200)

(* ----------------------------------------------------------------------- *)
(* Public-key export, src/utils/jwt.ts 167-187 and src/index.ts 112-129    *)
(* ----------------------------------------------------------------------- *)

\* Mutant of exportJWK: the JWK holds the private half of the pair.
exportJWKPrivate(key) ==
    [kty |-> IF key.family = "RS256" THEN "RSA" ELSE "EC", material |-> PrivateOf(key)]

\* jose.exportJWK(key): the JWK of the key's own material
exportJWK(key) ==
    [kty |-> IF key.family = "RS256" THEN "RSA" ELSE "EC", material |-> Material(key)]

\* The loop of getJWKS: import, export, push { ...jwk, kid, alg, use }; an unset or
\* unimportable key makes importPublicKey throw.
RECURSIVE getJWKSLoop(_, _)
getJWKSLoop(publicKeys, keys) ==
    IF publicKeys = <<>> THEN [ok |-> TRUE, keys |-> keys, error |-> ""]
    ELSE LET p   == Head(publicKeys)
             key == IF Truthy(p.publicKey) THEN importPublicKey(p.publicKey, p.algorithm)
                    ELSE None
         IN  IF key = None
             THEN [ok |-> FALSE, keys |-> <<>>, error |-> "Invalid key"]
             ELSE LET jwk == exportJWK(key)
                  IN  getJWKSLoop(Tail(publicKeys),
                                  Append(keys, [kty |-> jwk.kty, material |-> jwk.material,
                                                kid |-> p.kid, alg |-> p.algorithm,
                                                use |-> "sig"]))

\* getJWKS(publicKeys)
getJWKS(publicKeys) == getJWKSLoop(publicKeys, <<>>)

\* get('/.well-known/jwks.json')
jwks(e) ==
    LET publicKeys ==
          <<[algorithm |-> "RS256", publicKey |-> e.JWT_RS256_PUBLIC_KEY,
             kid |-> "rs256-key-1"],
            [algorithm |-> "ES256", publicKey |-> e.JWT_ES256_PUBLIC_KEY,
             kid |-> "es256-key-1"]>>
        result == getJWKS(publicKeys)
    IN  IF ~result.ok THEN onError(PlainError(result.error))
        ELSE Json([NoBody EXCEPT !.keys = result.keys], 200)

(* ----------------------------------------------------------------------- *)
(* Configuration, clock and clients                                        *)
(* ----------------------------------------------------------------------- *)

\* The bindings of a complete deployment (wrangler secrets and the test identity).
FullEnv ==
    [JWT_HS256_SECRET      |-> SecretBinding("hs256-secret"),
     JWT_RS256_PRIVATE_KEY |-> PemBinding("RS256", "PKCS8"),
     JWT_RS256_PUBLIC_KEY  |-> PemBinding("RS256", "SPKI"),
     JWT_ES256_PRIVATE_KEY |-> PemBinding("ES256", "PKCS8"),
     JWT_ES256_PUBLIC_KEY  |-> PemBinding("ES256", "SPKI"),
     TEST_USER_EMAIL       |-> "test@example.com",
     TEST_USER_PASSWORD    |-> "password123"]

\* Unset(e, names): the deployment e with the named bindings unset.
Unset(e, names) == [k \in DOMAIN e |-> IF k \in names THEN None ELSE e[k]]

\* The deployments considered: the complete one, and two in which, between them, every key
\* binding is unset once (the routes of an algorithm read that algorithm's bindings only).
Envs ==
    {FullEnv,
     Unset(FullEnv, {"JWT_HS256_SECRET", "JWT_RS256_PUBLIC_KEY", "JWT_ES256_PRIVATE_KEY"}),
     Unset(FullEnv, {"JWT_RS256_PRIVATE_KEY", "JWT_ES256_PUBLIC_KEY"})}

\* How many issued pairs a client keeps.
MaxIssued == 2

\* The clock readings considered (seconds): around the expiry of an access token and of a
\* refresh token issued at 0.
Instants ==
    {0, secs(accessTokenExpiry) - 1, secs(accessTokenExpiry),
     secs(refreshTokenExpiry) - 1, secs(refreshTokenExpiry)}

\* An exp far beyond every clock reading.
Forever == 2 * secs(refreshTokenExpiry)

Emails == {"test@example.com", "wrong@example.com", Undefined}

Passwords == {"password123", "wrongpassword", Undefined}

Routes == {"login", "refresh", "verify", "protected"}

OtherType(type) == IF type = "access" THEN "refresh" ELSE "access"

\* Key material an attacker has: the published public keys and keys of their own.
AttackerMaterial(hdr) ==
    IF hdr = "HS256" THEN [id |-> "attacker", half |-> "secret"]
    ELSE [id |-> "attacker", half |-> "private"]

\* What a client can make of a token it holds without the server's key: the claims changed
\* under the old signature, the header changed, or the signature replaced.
Tampered(tok) ==
    {Jwt(tok.hdr, [tok.claims EXCEPT !.type = OtherType(@)], tok.sig),
     Jwt(tok.hdr, [tok.claims EXCEPT !.exp = Forever], tok.sig),
     Jwt(tok.hdr, [tok.claims EXCEPT !.sub = "user-2"], tok.sig),
     Jwt(tok.hdr, [tok.claims EXCEPT !.email = "admin@example.com"], tok.sig),
     Jwt(tok.hdr, tok.claims,
         Signature(tok.hdr, AttackerMaterial(tok.hdr), tok.hdr, tok.claims))}
    \cup {Jwt(hdr, tok.claims, tok.sig) : hdr \in Algorithms \ {tok.hdr}}

\* Tokens made without any issued token: HMAC-signed with a public key's bytes as the
\* secret (declaring HS256 or the key's own algorithm), or signed with the attacker's key.
Forged ==
    LET claims(type) == Claims("user-1", "test@example.com", type, 0, Forever)
    IN  {Jwt(hdr, claims(type),
             Signature("HS256", [id |-> pub, half |-> "public"], hdr, claims(type))) :
           <<pub, hdr, type>> \in
             {x \in {"RS256", "ES256"} \X Algorithms \X TokenTypes :
                x[2] \in {"HS256", x[1]}}}
        \cup {Jwt(hdr, claims(type),
                  Signature(hdr, AttackerMaterial(hdr), hdr, claims(type))) :
                <<hdr, type>> \in Algorithms \X TokenTypes}

\* The Authorization headers a client may send.
AuthHeaders ==
    {None, Header(<<Word("Bearer")>>)}
    \cup {Header(<<Word("Bearer"), tok>>) :
            tok \in wallet \cup UNION {Tampered(w) : w \in wallet} \cup Forged
                    \cup {Garbage, Empty}}
    \cup {Header(<<Word("bearer"), tok>>) : tok \in wallet}
    \cup {Header(<<Word("Bearer"), tok, tok>>) : tok \in wallet}

\* The requests a client may send.
Requests ==
    {[route |-> "login", alg |-> alg, auth |-> None, body |-> body] :
       alg \in Algorithms,
       body \in {Malformed} \cup {LoginBody(e, p) : e \in Emails, p \in Passwords}}
    \cup {[route |-> route, alg |-> alg, auth |-> auth, body |-> None] :
            route \in Routes \ {"login"}, alg \in Algorithms, auth \in AuthHeaders}

\* The request context before any middleware ran.
NoCtx == [jwtPayload |-> None, state |-> "", handlerRan |-> FALSE, verified |-> FALSE]

\* The whole chain for one request at clock reading t: middleware, handler, error handler.
Respond(e, r, t) ==
    IF r.route = "login"
    THEN [resp |-> login(e, r.alg, r.body, t),
          ctx  |-> [NoCtx EXCEPT !.handlerRan = TRUE]]
    ELSE LET m == IF r.route = "refresh" THEN RefreshAuth(e, r.alg, r.auth, t)
                  ELSE AccessAuth(e, r.alg, r.auth, t)
             c == [jwtPayload |-> m.jwtPayload, state |-> m.state,
                   handlerRan |-> m.next, verified |-> m.verified]
         IN  IF ~m.next
             THEN [resp |-> onError(HttpError(m.status, m.message)), ctx |-> c]
             ELSE [resp |-> CASE r.route = "refresh" -> refresh(e, r.alg, m.jwtPayload, t)
                              [] r.route = "verify" -> verify(r.alg, m.jwtPayload)
                              [] r.route = "protected" -> protected(r.alg, m.jwtPayload, t),
                   ctx  |-> c]

(* ----------------------------------------------------------------------- *)
(* State machine                                                           *)
(* ----------------------------------------------------------------------- *)

\* No request log: the JWT flows are followed without the logger.
LogIdle ==
    /\ db = "absent"
    /\ writes = {}
    /\ rows = {}
    /\ lost = {}
    /\ requestId = 1

\* Nothing in flight besides the request followed, and an empty userStore.
AuxIdle ==
    /\ slots = <<>>
    /\ userStore = {}
    /\ logins = <<>>

Init ==
    /\ env \in Envs
    /\ now = 0
    /\ wallet = {}
    /\ pc = "idle"
    /\ req = None
    /\ resp = None
    /\ ctx = NoCtx
    /\ used = {}
    /\ LogIdle
    /\ AuxIdle

\* Time passes.
Tick ==
    /\ pc \in {"idle", "received"}
    /\ \E t \in Instants : t > now /\ now' = t
    /\ UNCHANGED <<env, wallet, pc, req, resp, ctx, used>>
    /\ UNCHANGED logvars
    /\ UNCHANGED auxvars

\* A request arrives.
Arrive ==
    /\ pc = "idle"
    /\ \E r \in Requests : req' = r
    /\ pc' = "received"
    /\ UNCHANGED <<env, now, wallet, resp, ctx, used>>
    /\ UNCHANGED logvars
    /\ UNCHANGED auxvars

\* The worker handles the request and produces its response.
Handle ==
    /\ pc = "received"
    /\ LET out == Respond(env, req, now)
       IN  resp' = out.resp /\ ctx' = out.ctx
    /\ pc' = "responded"
    /\ UNCHANGED <<env, now, wallet, req, used>>
    /\ UNCHANGED logvars
    /\ UNCHANGED auxvars

\* The tokens a response carries.
TokensOf(r) ==
    IF r.status = 200 /\ r.body.accessToken # None
    THEN {r.body.accessToken, r.body.refreshToken}
    ELSE {}

\* The client receives the response and keeps the tokens it carries, if it has room.
Deliver ==
    /\ pc = "responded"
    /\ wallet' = IF Cardinality(wallet \cup TokensOf(resp)) <= 2 * MaxIssued
                 THEN wallet \cup TokensOf(resp)
                 ELSE wallet
    /\ pc' = "idle"
    /\ req' = None
    /\ resp' = None
    /\ ctx' = NoCtx
    /\ UNCHANGED <<env, now, used>>
    /\ UNCHANGED logvars
    /\ UNCHANGED auxvars

Next == Tick \/ Arrive \/ Handle \/ Deliver

Spec == Init /\ [][Next]_vars

(* ----------------------------------------------------------------------- *)
(* The same worker serving a client that keeps using the tokens it holds,  *)
(* with the history of the refresh tokens already exchanged                *)
(* ----------------------------------------------------------------------- *)

\* The request a client makes to present a token to a guarded route.
Present(route, alg, tok) ==
    [route |-> route, alg |-> alg, auth |-> Header(<<Word("Bearer"), tok>>), body |-> None]

\* The requests of a client that logs in (rightly, wrongly or with a broken body) and
\* presents the tokens it was given, or none, to the guarded routes of their algorithm.
HolderRequests ==
    {r \in Requests :
       \/ /\ r.route = "login"
          /\ r.body \in {Malformed,
                         LoginBody("test@example.com", "password123"),
                         LoginBody("test@example.com", "wrongpassword")}
       \/ r.route # "login" /\ r.auth = None}
    \cup {Present(route, tok.hdr, tok) : route \in Routes \ {"login"}, tok \in wallet}

ArriveHolder ==
    /\ pc = "idle"
    /\ \E r \in HolderRequests : req' = r
    /\ pc' = "received"
    /\ UNCHANGED <<env, now, wallet, resp, ctx, used>>
    /\ UNCHANGED logvars
    /\ UNCHANGED auxvars

\* Handle, with used remembering the refresh tokens that have been exchanged for a new pair
\* (history only: no code reads it).
HandleRecording ==
    /\ pc = "received"
    /\ LET out == Respond(env, req, now)
       IN  /\ resp' = out.resp /\ ctx' = out.ctx
           /\ used' = IF req.route = "refresh" /\ out.resp.status = 200
                      THEN used \cup {extractToken(req.auth)}
                      ELSE used
    /\ pc' = "responded"
    /\ UNCHANGED <<env, now, wallet, req>>
    /\ UNCHANGED logvars
    /\ UNCHANGED auxvars

NextRotation == Tick \/ ArriveHolder \/ HandleRecording \/ Deliver

SpecRotation == Init /\ [][NextRotation]_vars

(* ----------------------------------------------------------------------- *)
(* Properties                                                              *)
(* ----------------------------------------------------------------------- *)

\* The request has been answered.
Responded == pc = "responded"

\* A request to a route behind the verification middleware has been answered.
Guarded == Responded /\ req.route # "login"

\* The bearer token the answered request presented.
Presented == extractToken(req.auth)

\* The token type a guarded route requires.
RequiredType(route) == IF route = "refresh" THEN "refresh" ELSE "access"

\* The request was rejected by the middleware: 401, no handler, nothing issued.
Rejected == resp.status = 401 /\ ~ctx.handlerRan /\ TokensOf(resp) = {}

\* The presented token is one the server issued, for the algorithm of the route, and it is
\* not expired.
PresentedIssuedUnexpired ==
    /\ Presented \in wallet
    /\ Presented.hdr = req.alg
    /\ Presented.claims.exp > now

\* C1 (type gating): a correctly signed, unexpired refresh token is rejected with 401 by
\* verify and protected, and a correctly signed, unexpired access token is rejected with
\* 401 by refresh, for every algorithm; the handler does not run and nothing is issued.
C1_TypeGating ==
    (Guarded /\ PresentedIssuedUnexpired
       /\ Presented.claims.type # RequiredType(req.route))
    => Rejected

\* C1 witness: an unexpired ES256 refresh token issued by login was presented to verify.
C1_Witness ==
    /\ Guarded /\ PresentedIssuedUnexpired
    /\ env = FullEnv /\ req.alg = "ES256" /\ req.route = "verify"
    /\ Presented.claims.type = "refresh"
    /\ resp.status = 401

\* The presented token is HMAC-signed with a public key's bytes as the secret.
HmacWithPublicKey ==
    /\ Presented.kind = "jwt"
    /\ Presented.sig.prim = "HS256"
    /\ Presented.sig.signer.half = "public"

\* C2 (algorithm pinning): a token whose header declares another algorithm than the
\* route's is rejected whatever produced its signature; a token HMAC-signed with the RSA or
\* EC public key as the secret is rejected by the RS256 and ES256 routes; a token issued
\* for one algorithm is rejected by the routes of the other two.
C2_AlgorithmPinning ==
    Guarded =>
      /\ (Presented.kind = "jwt" /\ Presented.hdr # req.alg) => Rejected
      /\ (HmacWithPublicKey /\ req.alg \in {"RS256", "ES256"}) => Rejected
      /\ (Presented \in wallet /\ Presented.sig.prim # req.alg) => Rejected

\* C2 witness: a token declaring HS256, HMAC-signed with the RS256 public key, of the type
\* the route requires, was presented to an RS256 route whose public key is configured.
C2_Witness ==
    /\ Guarded /\ HmacWithPublicKey
    /\ env = FullEnv /\ req.alg = "RS256"
    /\ Presented.hdr = "HS256"
    /\ Presented.sig.signer.id = "RS256"
    /\ Presented.claims.type = RequiredType(req.route)
    /\ resp.status = 401

\* The binding that holds the key an algorithm verifies with, and the one it signs with.
VerificationBinding(alg) ==
    CASE alg = "HS256" -> "JWT_HS256_SECRET"
      [] alg = "RS256" -> "JWT_RS256_PUBLIC_KEY"
      [] alg = "ES256" -> "JWT_ES256_PUBLIC_KEY"

SigningBinding(alg) ==
    CASE alg = "HS256" -> "JWT_HS256_SECRET"
      [] alg = "RS256" -> "JWT_RS256_PRIVATE_KEY"
      [] alg = "ES256" -> "JWT_ES256_PRIVATE_KEY"

\* The presented token was issued for this route's algorithm and type.
PresentedMatchesRoute ==
    /\ Presented \in wallet
    /\ Presented.hdr = req.alg
    /\ Presented.claims.type = RequiredType(req.route)

\* The middleware accepted the presented token.
Accepted == ctx.state = "Valid" /\ ctx.handlerRan /\ ctx.jwtPayload = Presented.claims

\* C3 as stated: a token whose exp is not after the current time fails at every guarded
\* route, and an issued token is accepted at every time before its exp.
C3_AsStated ==
    Guarded =>
      /\ (Presented.kind = "jwt" /\ Presented.claims.exp <= now) => Rejected
      /\ (PresentedMatchesRoute /\ Presented.claims.exp > now) => Accepted

\* C3 (expiry), amended: a token whose exp is not after the current time is rejected with
\* 401 at verify, protected and refresh of every algorithm, valid signature or not; an
\* issued token presented to a route of its algorithm and type is accepted at every time
\* before its exp, provided the key that algorithm verifies with is configured.
C3_Expiry ==
    Guarded =>
      /\ (Presented.kind = "jwt" /\ Presented.claims.exp <= now) => Rejected
      /\ (PresentedMatchesRoute /\ Presented.claims.exp > now
            /\ env[VerificationBinding(req.alg)] # None) => Accepted

\* C3 witness: an issued token was presented to a route of its algorithm and type, with its
\* verification key configured, exactly at its exp, and was rejected.
C3_Witness ==
    /\ Guarded /\ PresentedMatchesRoute
    /\ env[VerificationBinding(req.alg)] # None
    /\ Presented.claims.exp = now
    /\ resp.status = 401

C5_UniformRejection ==
    (Guarded /\ ~ctx.handlerRan) =>
      /\ resp.status = 401
      /\ \A r \in Requests :
           (r.route # "login" /\ ~Respond(env, r, now).ctx.handlerRan)
           => Respond(env, r, now).resp = resp

\* The operation the answered request asked for needs a key that is not configured: a
\* guarded route with a bearer token to verify, a login with matching credentials, or a
\* refresh whose token passed verification.
RequiredKeyAbsent ==
    \/ /\ req.route # "login"
       /\ ~Falsy(Presented)
       /\ env[VerificationBinding(req.alg)] = None
    \/ /\ req.route = "login"
       /\ req.body.kind = "json"
       /\ req.body.email = env.TEST_USER_EMAIL
       /\ req.body.password = env.TEST_USER_PASSWORD
       /\ env[SigningBinding(req.alg)] = None
    \/ /\ req.route = "refresh"
       /\ ctx.state = "Valid"
       /\ env[SigningBinding(req.alg)] = None

\* C6 as stated (configuration fault): when the key an operation requires is absent the
\* request is answered with a 5xx status, never with 401, on every route.
C6_ConfigFaultIs5xx ==
    (Responded /\ RequiredKeyAbsent) => (resp.status >= 500 /\ resp.status # 401)

\* The login request presented exactly the configured test identity.
CredentialsMatch ==
    /\ req.body.kind = "json"
    /\ req.body.email = env.TEST_USER_EMAIL
    /\ req.body.password = env.TEST_USER_PASSWORD

\* The response carries an access token and a refresh token.
CarriesTokens == resp.body.accessToken # None /\ resp.body.refreshToken # None

\* C7 as stated (login gate): login returns 200 with both tokens if and only if email and
\* password both equal the configured test identity; otherwise it returns 401 with
\* error 'Invalid credentials' and no token.
C7_AsStated ==
    (Responded /\ req.route = "login") =>
      IF CredentialsMatch
      THEN resp.status = 200 /\ CarriesTokens
      ELSE /\ resp.status = 401
           /\ resp.body.error = "Invalid credentials"
           /\ ~CarriesTokens

\* C7 (login gate), the part the handler does guarantee: login returns 200 with both tokens
\* if and only if the body parses, email and password both equal the configured test
\* identity and the key the algorithm signs with is configured; a parsed body with another
\* email or password gets 401 with error 'Invalid credentials'; no response other than a
\* 200 carries a token.
C7_LoginGate ==
    (Responded /\ req.route = "login") =>
      /\ (resp.status = 200 /\ CarriesTokens)
           <=> (CredentialsMatch /\ env[SigningBinding(req.alg)] # None)
      /\ (req.body.kind = "json" /\ ~CredentialsMatch)
           => (resp.status = 401 /\ resp.body.error = "Invalid credentials")
      /\ resp.status # 200 => ~CarriesTokens

\* C7 witness: a login with the right email and a wrong password was answered 401.
C7_Witness ==
    /\ Responded /\ req.route = "login"
    /\ req.body.kind = "json"
    /\ req.body.email = env.TEST_USER_EMAIL
    /\ req.body.password = "wrongpassword"
    /\ resp.status = 401
    /\ resp.body.error = "Invalid credentials"

\* A login or refresh has been answered with a pair of tokens.
Issued == Responded /\ req.route \in {"login", "refresh"} /\ resp.status = 200

\* The subject and email the answered issuing request signs: the fixed test user and the
\* presented email for login, those of the verified refresh token for refresh.
SignedSub == IF req.route = "login" THEN "user-1" ELSE ctx.jwtPayload.sub

SignedEmail == IF req.route = "login" THEN req.body.email ELSE ctx.jwtPayload.email

\* C8 (issued pair shape): every successful login or refresh issues exactly two tokens, one
\* of type access and one of type refresh, with the same sub and email, both declaring the
\* algorithm of the issuing route; no login or refresh that is not a 200 issues a token;
\* and every token ever issued has type access or refresh and a header algorithm equal to
\* the algorithm that signed it.
C8_PairShape ==
    /\ Issued =>
         LET a == resp.body.accessToken
             r == resp.body.refreshToken
         IN  /\ a.kind = "jwt" /\ r.kind = "jwt"
             /\ Cardinality(TokensOf(resp)) = 2
             /\ a.claims.type = "access" /\ r.claims.type = "refresh"
             /\ a.claims.sub = r.claims.sub /\ a.claims.email = r.claims.email
             /\ a.hdr = req.alg /\ r.hdr = req.alg
             /\ a.sig.prim = a.hdr /\ r.sig.prim = r.hdr
    /\ (Responded /\ resp.status # 200) => ~CarriesTokens
    /\ \A tok \in wallet :
         tok.claims.type \in TokenTypes /\ tok.hdr = tok.sig.prim

\* C8 witness: an RS256 refresh was answered with a new pair.
C8_Witness == Issued /\ req.route = "refresh" /\ req.alg = "RS256"

\* C9 (token lifetime): every issued access token has exp = iat + 900 and every issued
\* refresh token exp = iat + 604800, iat being the time of issuance, and the expiresIn the
\* response reports is the lifetime of the returned access token.
C9_Lifetime ==
    Issued =>
      LET a == resp.body.accessToken
          r == resp.body.refreshToken
      IN  /\ a.claims.iat = now /\ r.claims.iat = now
          /\ a.claims.exp = a.claims.iat + 900
          /\ r.claims.exp = r.claims.iat + 604800
          /\ resp.body.expiresIn = Span(15, "m")
          /\ secs(resp.body.expiresIn) = a.claims.exp - a.claims.iat

\* C9 witness: a refresh at a later time than the login was answered with a new pair.
C9_Witness == Issued /\ req.route = "refresh" /\ now > 0

\* C10 (round trip): a token login or refresh has just issued, verified with the key and
\* configuration of its algorithm at any time from its issuance up to its exp, passes, and
\* the claims returned carry the sub, email and type that were signed and the iat and exp
\* stamped at issuance.
C10_RoundTrip ==
    (Issued /\ env[VerificationBinding(req.alg)] # None) =>
      \A tok \in TokensOf(resp) :
        \A t \in Instants :
          (now <= t /\ t < tok.claims.exp) =>
            LET result == verifyToken(tok, VerifyConfig(env, req.alg), t)
                type == IF tok = resp.body.accessToken THEN "access" ELSE "refresh"
            IN  /\ result.ok
                /\ result.payload =
                     Claims(SignedSub, SignedEmail, type, now,
                            now + (IF type = "access" THEN 900 ELSE 604800))

\* C10 witness: an ES256 login under a complete configuration was answered with a pair.
C10_Witness == Issued /\ req.route = "login" /\ req.alg = "ES256" /\ env = FullEnv

\* The presented token is an issued, unexpired refresh token of the route's algorithm, and
\* the key that algorithm verifies with is configured.
ValidRefreshPresented ==
    /\ Guarded /\ req.route = "refresh"
    /\ PresentedIssuedUnexpired
    /\ Presented.claims.type = "refresh"
    /\ env[VerificationBinding(req.alg)] # None

\* C11 (refresh): a valid, unexpired refresh token presented to refresh of its algorithm is
\* answered 200 'Token refreshed' with an access and a refresh token that carry the sub and
\* email of the presented token and iat / exp stamped at the time of the refresh, and the
\* returned access token is accepted by verify of that algorithm until it expires.
C11_Refresh ==
    ValidRefreshPresented =>
      LET a == resp.body.accessToken
          r == resp.body.refreshToken
      IN  /\ resp.status = 200
          /\ resp.body.message = "Token refreshed"
          /\ resp.body.algorithm = req.alg
          /\ a.kind = "jwt" /\ r.kind = "jwt"
          /\ a.claims = Claims(Presented.claims.sub, Presented.claims.email, "access",
                               now, now + secs(accessTokenExpiry))
          /\ r.claims = Claims(Presented.claims.sub, Presented.claims.email, "refresh",
                               now, now + secs(refreshTokenExpiry))
          /\ \A t \in Instants :
               (now <= t /\ t < a.claims.exp) =>
                 Respond(env, Present("verify", req.alg, a), t).resp.status = 200

\* C11 witness: a refresh token issued earlier was presented to refresh at a later time and
\* a pair was returned.
C11_Witness ==
    /\ ValidRefreshPresented
    /\ Presented.claims.iat < now
    /\ resp.status = 200
    /\ resp.body.accessToken # None

\* The guarded routes that require tokens of the given type.
RoutesFor(type) == IF type = "refresh" THEN {"refresh"} ELSE {"verify", "protected"}

\* C12 (no revocation on rotation): whatever requests have been served, every token issued
\* so far, one already exchanged for a new pair included, passes the middleware of every
\* route of its type and algorithm at every time before its exp (the key the algorithm
\* verifies with being configured); serving a request changes nothing a later verification
\* reads.
C12_NoRevocation ==
    \A tok \in wallet \cup used :
      env[VerificationBinding(tok.hdr)] # None =>
        \A t \in Instants :
          (now <= t /\ t < tok.claims.exp) =>
            \A route \in RoutesFor(tok.claims.type) :
              LET out == Respond(env, Present(route, tok.hdr, tok), t)
              IN  /\ out.ctx.state = "Valid" /\ out.ctx.handlerRan
                  /\ out.resp.status = 200

\* C12 witness: a refresh token that had already been exchanged for a new pair was
\* presented to refresh again, at a later time, and was exchanged again.
C12_Witness ==
    /\ Guarded /\ req.route = "refresh"
    /\ Presented \in used
    /\ Presented.claims.iat < now
    /\ \E tok \in wallet : tok.claims.iat > Presented.claims.iat /\ tok.claims.iat < now
    /\ resp.status = 200

\* The middleware reached its call of verifyToken (the first statement after extraction).
VerifyInvoked == ctx.state \in {"CryptoVerifyFailed", "TypeMismatch", "Valid"}

\* The Authorization header has exactly two parts, the scheme 'Bearer' and a non-empty
\* token.
BearerShaped ==
    /\ req.auth # None
    /\ Len(req.auth.parts) = 2
    /\ req.auth.parts[1] = Word("Bearer")
    /\ req.auth.parts[2] # Empty

\* C13 (extraction): the middleware goes on to verifyToken only for a header of exactly two
\* parts, 'Bearer' and a non-empty token; a missing header, another scheme (lower-case
\* 'bearer' included), more or fewer than two parts, or an empty token is answered 401
\* without verifyToken being invoked, the handler run or a token issued.
C13_Extraction ==
    Guarded =>
      /\ VerifyInvoked <=> BearerShaped
      /\ ~BearerShaped =>
           /\ ctx.state = "ExtractFailed"
           /\ ~ctx.verified
           /\ Rejected

\* C13 witness: an unexpired issued token of the route's algorithm and type was presented
\* under the scheme 'bearer' with every key configured, and the answer was 401.
C13_Witness ==
    /\ Guarded /\ env = FullEnv
    /\ req.auth # None /\ Len(req.auth.parts) = 2
    /\ req.auth.parts[1] = Word("bearer")
    /\ req.auth.parts[2] \in wallet
    /\ req.auth.parts[2].hdr = req.alg
    /\ req.auth.parts[2].claims.type = RequiredType(req.route)
    /\ req.auth.parts[2].claims.exp > now
    /\ resp.status = 401

\* What verifyToken returns for the presented token under the route's algorithm and key.
VerifyOutcome == verifyToken(Presented, VerifyConfig(env, req.alg), now)

\* C14 (verification state machine): every request to verify, protected or refresh ends in
\* exactly one of ExtractFailed (no bearer token), CryptoVerifyFailed (verifyToken failed),
\* TypeMismatch (verified, wrong type) or Valid (verified, right type); the handler runs if
\* and only if the state is Valid, and then jwtPayload holds the claims verifyToken
\* returned for the request's token; in the other states jwtPayload is never set.
C14_StateMachine ==
    Guarded =>
      /\ ctx.state \in {"ExtractFailed", "CryptoVerifyFailed", "TypeMismatch", "Valid"}
      /\ ctx.state = "ExtractFailed" <=> Falsy(Presented)
      /\ ctx.state = "CryptoVerifyFailed" <=> (~Falsy(Presented) /\ ~VerifyOutcome.ok)
      /\ ctx.state = "TypeMismatch" <=>
           /\ ~Falsy(Presented) /\ VerifyOutcome.ok
           /\ VerifyOutcome.payload.type # RequiredType(req.route)
      /\ ctx.handlerRan <=> ctx.state = "Valid"
      /\ ctx.handlerRan =>
           /\ VerifyOutcome.ok
           /\ ctx.jwtPayload = VerifyOutcome.payload
      /\ ~ctx.handlerRan => (ctx.jwtPayload = None /\ resp.status = 401)

\* C14 witness: a verified token of the wrong type ended in TypeMismatch.
C14_Witness ==
    /\ Guarded /\ ctx.state = "TypeMismatch"
    /\ VerifyOutcome.ok /\ ~ctx.handlerRan

\* C15 (failures normalized): whenever verifyToken fails on the presented token (not a
\* compact JWS, bad signature, wrong header algorithm, expired) while the key the route
\* verifies with is configured, the client receives 401, never a 5xx and never a 200; the
\* handler does not run and nothing is issued.
C15_FailuresNormalized ==
    (Guarded /\ ~Falsy(Presented) /\ ~VerifyOutcome.ok
       /\ env[VerificationBinding(req.alg)] # None)
    => /\ resp.status = 401
       /\ ctx.state = "CryptoVerifyFailed"
       /\ Rejected

\* C15 witness: the text 'invalid-token' was presented to refresh with the key configured
\* and the answer was 401.
C15_Witness ==
    /\ Guarded /\ req.route = "refresh"
    /\ Presented = Garbage
    /\ env[VerificationBinding(req.alg)] # None
    /\ resp.status = 401

\* C16 (verified claims only): every 200 of verify, protected or refresh follows, in the
\* same request, a successful verifyToken of the presented token under the route's own
\* algorithm and key; the claims the type check and the handler read are the ones that
\* verification returned; and a token that decodeToken can read, with the type the route
\* requires, is still rejected when verifyToken fails on it.
C16_VerifiedClaimsOnly ==
    Guarded =>
      /\ (resp.status = 200 \/ ctx.handlerRan) =>
           /\ ctx.verified
           /\ VerifyOutcome.ok
           /\ ctx.jwtPayload = VerifyOutcome.payload
           /\ ctx.jwtPayload.type = RequiredType(req.route)
      /\ ctx.state = "TypeMismatch" =>
           (VerifyOutcome.ok /\ VerifyOutcome.payload.type # RequiredType(req.route))
      /\ (~Falsy(Presented) /\ decodeToken(Presented) # None /\ ~VerifyOutcome.ok) => Rejected

\* C16 witness: a token that decodes to access claims not yet expired, signed with a key
\* that is not the server's, was presented to protected with every key configured, and was
\* rejected.
C16_Witness ==
    /\ Guarded /\ req.route = "protected" /\ env = FullEnv
    /\ Presented \in Forged
    /\ Presented.hdr = req.alg
    /\ decodeToken(Presented) # None
    /\ decodeToken(Presented).type = "access"
    /\ decodeToken(Presented).exp > now
    /\ resp.status = 401

\* C17 (handlers echo the verified claims): a 200 from verify carries valid = true, the
\* route's algorithm and a payload whose sub, email, type, iat and exp are those of the
\* presented access token (type access); a 200 from protected carries user.id and
\* user.email equal to the verified sub and email; for a token obtained from login (or from
\* a refresh of one) these are 'user-1' and the login email.
C17_EchoVerifiedClaims ==
    (Guarded /\ resp.status = 200) =>
      /\ req.route = "verify" =>
           /\ resp.body.valid
           /\ resp.body.algorithm = req.alg
           /\ resp.body.payload = Presented.claims
           /\ resp.body.payload = ctx.jwtPayload
           /\ resp.body.payload.type = "access"
           /\ Presented \in wallet =>
                /\ resp.body.payload.sub = "user-1"
                /\ resp.body.payload.email = env.TEST_USER_EMAIL
      /\ req.route = "protected" =>
           /\ resp.body.algorithm = req.alg
           /\ resp.body.user = [id |-> ctx.jwtPayload.sub, email |-> ctx.jwtPayload.email]
           /\ resp.body.user = [id |-> Presented.claims.sub, email |-> Presented.claims.email]
           /\ Presented \in wallet =>
                resp.body.user = [id |-> "user-1", email |-> env.TEST_USER_EMAIL]

\* C17 witness: verify answered 200 for an access token issued after time 0.
C17_Witness ==
    /\ Guarded /\ req.route = "verify" /\ resp.status = 200
    /\ Presented \in wallet
    /\ Presented.claims.iat > 0

(* ----------------------------------------------------------------------- *)
(* The request log, src/middleware/request-logger.ts and src/index.ts 36-38 *)
(* ----------------------------------------------------------------------- *)

\* How many requests are followed through the logger.
MaxRequests == 3

\* An inbound request: its method, and the route, algorithm, Authorization header and body
\* of the path it asks for; route 'unknown' is a path no route matches.
Inbound(method, route, alg, auth, body) ==
    [method |-> method, route |-> route, alg |-> alg, auth |-> auth, body |-> body]

\* The pair a client was given by an HS256 login at time 0.
LogWallet ==
    TokensOf(login(FullEnv, "HS256", LoginBody("test@example.com", "password123"), 0))

\* The inbound requests followed: a login that succeeds, one whose body is not JSON, a
\* verify with the access token, a protected without header, a refresh with the access
\* token, a path that does not exist, and a CORS preflight.
LogRequests ==
    {Inbound("POST", "login", "HS256", None, LoginBody("test@example.com", "password123")),
     Inbound("POST", "login", "RS256", None, Malformed),
     Inbound("GET", "protected", "ES256", None, None),
     Inbound("GET", "unknown", "HS256", None, None),
     Inbound("OPTIONS", "login", "HS256", None, None)}
    \cup {Inbound("GET", "verify", "HS256", Header(<<Word("Bearer"), tok>>), None) :
            tok \in {w \in LogWallet : w.claims.type = "access"}}
    \cup {Inbound("POST", "refresh", "HS256", Header(<<Word("Bearer"), tok>>), None) :
            tok \in {w \in LogWallet : w.claims.type = "access"}}

\* app.notFound
notFound ==
    Json([NoBody EXCEPT !.error = "Not Found",
                        !.message = "The requested endpoint does not exist"], 404)

\* cors() on an OPTIONS request: 204 No Content, returned without calling next()
corsPreflight == Json(NoBody, 204)

\* Everything below the logger: the routes with their middleware, app.notFound, app.onError
Downstream(e, r, t) ==
    IF r.route \in Routes THEN Respond(e, r, t)
    ELSE IF r.route = "jwks" THEN [resp |-> jwks(e), ctx |-> NoCtx]
    ELSE [resp |-> notFound, ctx |-> NoCtx]

\* extractAlgorithm(path)
extractAlgorithm(r) == IF r.route \in Routes THEN Word(r.alg) ELSE None

\* Mutant of RequestLog: the status logged is the 200 the variable starts with.
RequestLogInitialStatus(id, r, status, payload) ==
    [request_id    |-> id,
     method        |-> r.method,
     route         |-> r.route,
     status        |-> 200,
     user_id       |-> IF payload # None THEN Word(payload.sub) ELSE None,
     algorithm     |-> extractAlgorithm(r),
     token_type    |-> IF payload # None THEN Word(payload.type) ELSE None,
     error_message |-> None]

\* The RequestLog the finally block builds; next() does not throw (errors below are
\* answered by app.onError), so error_message stays null.
RequestLog(id, r, status, payload) ==
    [request_id    |-> id,
     method        |-> r.method,
     route         |-> r.route,
     status        |-> status,
     user_id       |-> IF payload # None THEN Word(payload.sub) ELSE None,
     algorithm     |-> extractAlgorithm(r),
     token_type    |-> IF payload # None THEN Word(payload.type) ELSE None,
     error_message |-> None]

InitLog ==
    /\ env = FullEnv
    /\ now = 0
    /\ wallet = LogWallet
    /\ pc = "idle"
    /\ req = None
    /\ resp = None
    /\ ctx = NoCtx
    /\ used = {}
    /\ db \in {"absent", "bound"}
    /\ writes = {}
    /\ rows = {}
    /\ lost = {}
    /\ requestId = 1
    /\ AuxIdle

\* A request comes in.
LogArrive ==
    /\ pc = "idle"
    /\ requestId <= MaxRequests
    /\ \E r \in LogRequests : req' = r
    /\ pc' = "received"
    /\ UNCHANGED <<env, now, wallet, resp, ctx, used>>
    /\ UNCHANGED logvars
    /\ UNCHANGED auxvars

\* app.use('*', cors()) stands before the logger and answers a preflight itself.
Preflight ==
    /\ pc = "received"
    /\ req.method = "OPTIONS"
    /\ resp' = corsPreflight
    /\ pc' = "responded"
    /\ UNCHANGED <<env, now, wallet, req, ctx, used>>
    /\ UNCHANGED logvars
    /\ UNCHANGED auxvars

\* requestLogger up to the end of await next(): the chain below it has produced c.res.
AwaitNext ==
    /\ pc = "received"
    /\ req.method # "OPTIONS"
    /\ LET out == Downstream(env, req, now)
       IN  resp' = out.resp /\ ctx' = out.ctx
    /\ pc' = "decided"
    /\ UNCHANGED <<env, now, wallet, req, used>>
    /\ UNCHANGED logvars
    /\ UNCHANGED auxvars

\* Mutant of LogFinally: the write is awaited and its error is not caught.
LogFinallyAwaiting ==
    /\ pc = "decided"
    /\ \/ /\ db = "absent"
          /\ resp' = onError(PlainError("Cannot read properties of undefined"))
          /\ UNCHANGED <<rows, lost>>
       \/ /\ db # "absent"
          /\ rows' = rows \cup {RequestLog(requestId, req, resp.status, ctx.jwtPayload)}
          /\ UNCHANGED <<resp, lost>>
       \/ /\ db # "absent"
          /\ lost' = lost \cup {requestId}
          /\ resp' = onError(PlainError("D1_ERROR"))
          /\ UNCHANGED rows
    /\ pc' = "responded"
    /\ UNCHANGED <<env, now, wallet, req, ctx, used, db, writes, requestId>>
    /\ UNCHANGED auxvars

\* requestLogger after next(): status and jwtPayload are read, the finally block builds the
\* entry and, if DB is bound, hands saveLog(db, log) to waitUntil without awaiting it.
LogFinally ==
    /\ pc = "decided"
    /\ writes' = IF db # "absent"
                 THEN writes \cup {RequestLog(requestId, req, resp.status, ctx.jwtPayload)}
                 ELSE writes
    /\ pc' = "responded"
    /\ UNCHANGED <<env, now, wallet, req, resp, ctx, used, db, rows, lost, requestId>>
    /\ UNCHANGED auxvars

\* The response leaves the worker.
Send ==
    /\ pc = "responded"
    /\ pc' = "idle"
    /\ req' = None
    /\ resp' = None
    /\ ctx' = NoCtx
    /\ requestId' = requestId + 1
    /\ UNCHANGED <<env, now, wallet, used, db, writes, rows, lost>>
    /\ UNCHANGED auxvars

\* saveLog: the INSERT succeeds.
SaveLogOk ==
    /\ \E w \in writes :
         /\ rows' = rows \cup {w}
         /\ writes' = writes \ {w}
    /\ UNCHANGED <<env, now, wallet, pc, req, resp, ctx, used, db, lost, requestId>>
    /\ UNCHANGED auxvars

\* Mutant of SaveLogFail: a failed INSERT is tried again.
SaveLogFailRetrying ==
    /\ \E w \in writes : lost' = lost \cup {w.request_id}
    /\ UNCHANGED <<env, now, wallet, pc, req, resp, ctx, used, db, writes, rows, requestId>>
    /\ UNCHANGED auxvars

\* saveLog: the INSERT throws; the catch block reports it on the console and that is all.
SaveLogFail ==
    /\ \E w \in writes :
         /\ writes' = writes \ {w}
         /\ lost' = lost \cup {w.request_id}
    /\ UNCHANGED <<env, now, wallet, pc, req, resp, ctx, used, db, rows, requestId>>
    /\ UNCHANGED auxvars

NextLog ==
    LogArrive \/ Preflight \/ AwaitNext \/ LogFinally \/ Send \/ SaveLogOk \/ SaveLogFail

SpecLog == InitLog /\ [][NextLog]_vars

\* The runtime keeps running the request path; nothing obliges a log write to settle.
SpecLogFair ==
    /\ SpecLog
    /\ WF_vars(Preflight) /\ WF_vars(AwaitNext) /\ WF_vars(LogFinally) /\ WF_vars(Send)

\* The response the request gets from the chain, whatever the request log does.
ChainResponse ==
    IF req.method = "OPTIONS" THEN corsPreflight ELSE Downstream(env, req, now).resp

\* What has become of the log write of the request being served.
OwnWrites == {w \in writes \cup rows : w.request_id = requestId}

\* C18 (logging does not influence the outcome): the status and body a request is answered
\* with are those the chain below the logger produced, whether DB is absent or bound and
\* whether the request's log write is still pending, has succeeded or has thrown.
C18_LoggingNoInfluence ==
    (pc = "responded") =>
      /\ resp = ChainResponse
      /\ (req.method # "OPTIONS" /\ req.route \in Routes \ {"login"}) =>
           resp = Respond(env, req, now).resp

\* C18 witness: a request answered 200 whose log write has already thrown, response not
\* yet sent.
C18_Witness ==
    /\ pc = "responded"
    /\ db = "bound"
    /\ requestId \in lost
    /\ resp.status = 200
    /\ req.route = "verify"

\* C19 (fire and forget): a failed log write is never tried again, no request has more than
\* one log write, and every request that has come in gets its response although nothing
\* obliges a log write ever to settle.
C19_FireAndForget ==
    /\ [](/\ \A w \in writes \cup rows : w.request_id \notin lost
          /\ \A v, w \in writes \cup rows : v.request_id = w.request_id => v = w)
    /\ (pc = "received") ~> (pc = "responded")
    /\ (pc = "responded") ~> (pc = "idle")

\* C19 witness: the response of a request has been sent and its log write is still pending.
C19_Witness ==
    /\ pc = "idle"
    /\ \E w \in writes : w.request_id < requestId

\* C20 as stated (one log entry per request, after the decision): with DB bound, every
\* inbound request that has been answered has had exactly one log write dispatched, and
\* the status that write carries is the status of the response.
C20_OneLogPerRequest ==
    (pc = "responded" /\ db = "bound") =>
      /\ Cardinality(OwnWrites) + (IF requestId \in lost THEN 1 ELSE 0) = 1
      /\ \A w \in OwnWrites : w.status = resp.status

\* C21 as stated (client input errors are client errors): a login whose body is not JSON is
\* answered 400 or 401 with a generic message, never with a 5xx status.
C21_MalformedBodyIsClientError ==
    (Responded /\ req.route = "login" /\ req.body.kind = "malformed") =>
      /\ resp.status \in {400, 401}
      /\ resp.status < 500

\* C22 as stated (unhandled faults are suppressed): an exception that is not an HTTP
\* exception is answered 500 with a generic label only; the message of the exception is not
\* in the body.
C22_FaultMessageSuppressed ==
    (Responded /\ resp.status = 500) =>
      /\ resp.body.error = "Internal Server Error"
      /\ resp.body.message = ""

(* ----------------------------------------------------------------------- *)
(* Several JWT requests in flight, interleaved at their await points       *)
(* ----------------------------------------------------------------------- *)

\* How many requests are in flight at the same time.
MaxInflight == 2

Slot == 1 .. MaxInflight

\* A slot with no request in it.
FreeSlot == [stage |-> "free", req |-> None, jwtPayload |-> None, resp |-> None]

\* The requests followed: logins, the guarded routes with the tokens of an HS256 login at
\* time 0, of the right and of the wrong type, or with no header, and the key export.
ConcurrentRequests ==
    {Inbound("POST", "login", "HS256", None, LoginBody("test@example.com", "password123")),
     Inbound("POST", "login", "ES256", None, LoginBody("test@example.com", "wrongpassword")),
     Inbound("GET", "protected", "HS256", None, None),
     Inbound("GET", "jwks", "RS256", None, None)}
    \cup {Inbound("GET", "verify", "HS256", Header(<<Word("Bearer"), tok>>), None) :
            tok \in LogWallet}
    \cup {Inbound("GET", "protected", "HS256", Header(<<Word("Bearer"), tok>>), None) :
            tok \in {w \in LogWallet : w.claims.type = "access"}}
    \cup {Inbound("POST", "refresh", "HS256", Header(<<Word("Bearer"), tok>>), None) :
            tok \in {w \in LogWallet : w.claims.type = "refresh"}}

InitConcurrent ==
    /\ env \in Envs
    /\ now = 0
    /\ wallet = LogWallet
    /\ pc = "idle"
    /\ req = None
    /\ resp = None
    /\ ctx = NoCtx
    /\ used = {}
    /\ LogIdle
    /\ userStore = {}
    /\ logins = <<>>
    /\ slots = [i \in Slot |-> FreeSlot]

\* A request comes in and gets a context of its own.
SlotArrive(i) ==
    /\ slots[i].stage = "free"
    /\ \E r \in ConcurrentRequests :
         slots' = [slots EXCEPT ![i] = [FreeSlot EXCEPT !.stage = "received", !.req = r]]
    /\ UNCHANGED <<jwtvars, logvars, userStore, logins>>

\* The middleware of a guarded route: it awaits verifyToken, then either throws its 401,
\* answered by app.onError, or sets jwtPayload in the request's own context.
SlotMiddleware(i) ==
    /\ slots[i].stage = "received"
    /\ slots[i].req.route \in Routes \ {"login"}
    /\ LET r == slots[i].req
           m == IF r.route = "refresh" THEN RefreshAuth(env, r.alg, r.auth, now)
                ELSE AccessAuth(env, r.alg, r.auth, now)
       IN  slots' = [slots EXCEPT ![i] =
                       IF m.next
                       THEN [@ EXCEPT !.stage = "verified", !.jwtPayload = m.jwtPayload]
                       ELSE [@ EXCEPT !.stage = "done",
                                      !.resp = onError(HttpError(m.status, m.message))]]
    /\ UNCHANGED <<jwtvars, logvars, userStore, logins>>

\* The handler a route runs with the jwtPayload of its context.
HandlerOf(e, r, jwtPayload, t) ==
    CASE r.route = "login" -> login(e, r.alg, r.body, t)
      [] r.route = "refresh" -> refresh(e, r.alg, jwtPayload, t)
      [] r.route = "verify" -> verify(r.alg, jwtPayload)
      [] r.route = "protected" -> protected(r.alg, jwtPayload, t)
      [] OTHER -> Downstream(e, r, t).resp

\* The handler may run: behind the middleware for a guarded route, at once for the others.
HandlerReady(i) ==
    \/ slots[i].stage = "verified"
    \/ slots[i].stage = "received" /\ slots[i].req.route \notin Routes \ {"login"}

\* Mutant of SlotHandler: jwtPayload is kept in one place for all requests, so a handler
\* reads the payload the middleware set last, for whichever request.
SlotHandlerShared(i) ==
    /\ HandlerReady(i)
    /\ \E j \in Slot :
         /\ slots[j].stage = "verified"
         /\ slots' = [slots EXCEPT ![i] =
                        [@ EXCEPT !.stage = "done",
                                  !.resp = HandlerOf(env, slots[i].req, slots[j].jwtPayload,
                                                      now)]]
    /\ UNCHANGED <<jwtvars, logvars, userStore, logins>>

\* The handler runs and produces the response; it reads the context of its own request.
SlotHandler(i) ==
    /\ HandlerReady(i)
    /\ slots' = [slots EXCEPT ![i] =
                   [@ EXCEPT !.stage = "done",
                             !.resp = HandlerOf(env, slots[i].req, slots[i].jwtPayload,
                                                      now)]]
    /\ UNCHANGED <<jwtvars, logvars, userStore, logins>>

\* The response leaves and the context is dropped.
SlotSend(i) ==
    /\ slots[i].stage = "done"
    /\ slots' = [slots EXCEPT ![i] = FreeSlot]
    /\ UNCHANGED <<jwtvars, logvars, userStore, logins>>

NextConcurrent ==
    \E i \in Slot : SlotArrive(i) \/ SlotMiddleware(i) \/ SlotHandler(i) \/ SlotSend(i)

SpecConcurrent == InitConcurrent /\ [][NextConcurrent]_vars

\* C23 (requests are independent): however the steps of the requests in flight interleave,
\* the response of each is the response the same request gets when it is served alone with
\* the same configuration and clock, and the jwtPayload its handler reads is the one its
\* own middleware verified; serving requests changes nothing but the contexts of the
\* requests themselves.
C23_Independent ==
    /\ \A i \in Slot :
         /\ slots[i].stage = "done" =>
              slots[i].resp = Downstream(env, slots[i].req, now).resp
         /\ slots[i].stage = "verified" =>
              slots[i].jwtPayload = Respond(env, slots[i].req, now).ctx.jwtPayload
         /\ slots[i].stage \in {"free", "received"} => slots[i].jwtPayload = None
    /\ env \in Envs /\ now = 0 /\ wallet = LogWallet /\ userStore = {}

\* C23 witness: verify has answered 200 for the access token while a refresh, verified with
\* the refresh token, is still waiting for its handler.
C23_Witness ==
    \E i, j \in Slot :
      /\ slots[i].stage = "done" /\ slots[i].req.route = "verify"
      /\ slots[i].resp.status = 200
      /\ slots[j].stage = "verified" /\ slots[j].req.route = "refresh"

\* Both public keys are configured.
PublicKeysConfigured ==
    env.JWT_RS256_PUBLIC_KEY # None /\ env.JWT_ES256_PUBLIC_KEY # None

Num(n) == [kind |-> "number", nan |-> FALSE, int |-> n, half |-> FALSE]

NumAndHalf(n) == [kind |-> "number", nan |-> FALSE, int |-> n, half |-> TRUE]

NaN == [kind |-> "number", nan |-> TRUE, int |-> 0, half |-> FALSE]

\* A JavaScript string, as its characters.
Str(chars) == [kind |-> "string", chars |-> chars]

\* Whether a value is falsy decides || and ?: , so: undefined, '', 0 and NaN are not truthy.
ToBoolean(v) ==
    CASE v.kind = "none" -> FALSE
      [] v.kind = "string" -> v.chars # <<>>
      [] v.kind = "number" -> ~v.nan /\ (v.int # 0 \/ v.half)

Less(a, b) == a.int < b.int \/ (a.int = b.int /\ ~a.half /\ b.half)

\* Math.max and Math.min: NaN if either argument is NaN.
mathMax(a, b) == IF a.nan \/ b.nan THEN NaN ELSE IF Less(a, b) THEN b ELSE a

mathMin(a, b) == IF a.nan \/ b.nan THEN NaN ELSE IF Less(b, a) THEN b ELSE a

DigitChars == {"0", "1", "2", "3", "4", "5", "6", "7", "8", "9"}

DigitValue(ch) == CHOOSE d \in 0 .. 9 : ToString(d) = ch

\* The longest prefix of digits, as a number; NaN when there is no digit to read.
RECURSIVE parseDigits(_, _, _)
parseDigits(chars, acc, seen) ==
    IF chars # <<>> /\ Head(chars) \in DigitChars
    THEN parseDigits(Tail(chars), acc * 10 + DigitValue(Head(chars)), TRUE)
    ELSE IF seen THEN Num(acc) ELSE NaN

RECURSIVE trimStart(_)
trimStart(chars) ==
    IF chars # <<>> /\ Head(chars) = " " THEN trimStart(Tail(chars)) ELSE chars

\* parseInt(string, 10): leading blanks, a sign, then digits up to the first other character
parseInt(string, radix) ==
    LET t      == trimStart(string.chars)
        signed == t # <<>> /\ Head(t) \in {"+", "-"}
        digits == parseDigits(IF signed THEN Tail(t) ELSE t, 0, FALSE)
    IN  IF digits.nan THEN NaN
        ELSE IF signed /\ Head(t) = "-" THEN Num(0 - digits.int)
        ELSE digits

\* ToNumber, as Math.max applies it to its arguments: a number is itself; of the strings,
\* a decimal integer literal is its value and text that is no numeric literal is NaN.
ToNumber(v) ==
    IF v.kind = "number" THEN v
    ELSE LET t      == v.chars
             signed == t # <<>> /\ Head(t) \in {"+", "-"}
             rest   == IF signed THEN Tail(t) ELSE t
         IN  IF rest # <<>> /\ \A n \in DOMAIN rest : rest[n] \in DigitChars
             THEN parseInt(v, 10)
             ELSE NaN

\* Math.min(Math.max(iterations, 1000), 100000)
clampIterations(iterations) ==
    mathMin(mathMax(ToNumber(iterations), Num(1000)), Num(100000))

\* login: iterationsParam ? parseInt(iterationsParam, 10) : 100000, then the limits
safeIterations(iterationsParam) ==
    clampIterations(IF ToBoolean(iterationsParam) THEN parseInt(iterationsParam, 10)
                    ELSE Num(100000))

\* hash: body.iterations || 100000, then the limits
hashIterations(body) ==
    clampIterations(IF ToBoolean(body.iterations) THEN body.iterations ELSE Num(100000))

\* generateSalt(): 16 random bytes; any value can come out, also the same one twice.
Salts == {"salt-a", "salt-b"}

\* saltToBase64 / base64ToSalt
saltToBase64(salt) == [kind |-> "base64", bytes |-> salt]

base64ToSalt(base64) == base64.bytes

\* hashPassword(password, salt, iterations): deriveBits rejects a count that is not a
\* number from 1 up to the platform's limit, and cuts a fraction off one that is; the
\* result is the digest of (password, salt, count).
hashPassword(password, salt, iterations) ==
    IF iterations.nan \/ iterations.int < 1 \/ iterations.int > 100000
    THEN [ok |-> FALSE, hash |-> None, error |-> "deriveBits failed"]
    ELSE [ok |-> TRUE,
          hash |-> [kind |-> "pbkdf2", password |-> password, salt |-> salt,
                    iterations |-> iterations.int],
          error |-> ""]

\* verifyPassword(password, salt, storedHash, iterations)
verifyPassword(password, salt, storedHash, iterations) ==
    LET computedHash == hashPassword(password, salt, iterations)
    IN  [ok |-> computedHash.ok, valid |-> computedHash.ok /\ computedHash.hash = storedHash,
         error |-> computedHash.error]

\* StoredUser
StoredUser(id, email, passwordHash, salt, iterations) ==
    [kind |-> "user", id |-> id, email |-> email, passwordHash |-> passwordHash,
     salt |-> salt, iterations |-> iterations]

\* userStore.get(email)
storeGet(store, email) ==
    IF \E u \in store : u.email = email THEN CHOOSE u \in store : u.email = email ELSE None

\* userStore.set(email, user)
storeSet(store, email, user) == {u \in store : u.email # email} \cup {user}

\* The bodies the password routes answer with.
PasswordBody ==
    [error |-> "", message |-> "", success |-> FALSE, user |-> None, algorithm |-> "",
     iterations |-> None]

authenticationFailed ==
    Json([PasswordBody EXCEPT !.error = "Authentication failed",
                              !.message = "Invalid email or password"], 401)

authenticationSuccessful(user) ==
    Json([PasswordBody EXCEPT !.success = TRUE,
                              !.message = "Authentication successful",
                              !.user = [id |-> user.id, email |-> user.email],
                              !.algorithm = "PBKDF2-SHA256",
                              !.iterations = user.iterations], 200)

hashed(iterations) ==
    Json([PasswordBody EXCEPT !.success = TRUE, !.algorithm = "PBKDF2-SHA256",
                              !.iterations = iterations], 200)

\* c.env.TEST_USER_EMAIL || 'test@example.com', c.env.TEST_USER_PASSWORD || 'password123':
\* both bindings are set in every deployment considered, so neither default is taken.
testEmail(e) == e.TEST_USER_EMAIL

testPassword(e) == e.TEST_USER_PASSWORD

\* How many password requests are in flight at the same time.
MaxLogins == 2

LoginSlot == 1 .. MaxLogins

\* A request to a password route: the JSON body, the iterations query parameter and the
\* Authorization header.
PasswordRequest(route, body, iterationsParam, auth) ==
    [route |-> route, body |-> body, iterationsParam |-> iterationsParam, auth |-> auth]

\* The body of POST /hash
HashBody(password, iterations) ==
    [kind |-> "json", password |-> password, iterations |-> iterations]

\* The logins followed: both emails with both passwords and a numeric or a non-numeric
\* iterations parameter; the right credentials with no, a zero, a negative and a huge
\* parameter; a body that is not JSON; a login that carries a bearer token.
LoginRequests ==
    {PasswordRequest("login", LoginBody(email, password), param, None) :
       email \in {"test@example.com", "wrong@example.com"},
       password \in {"password123", "wrongpassword"},
       param \in {Str(<<"5", "0", "0", "0">>), Str(<<"a", "b", "c">>)}}
    \cup {PasswordRequest("login", LoginBody("test@example.com", "password123"), param, None) :
            param \in {None, Str(<<"0">>), Str(<<"-", "5">>),
                       Str(<<"9", "9", "9", "9", "9", "9">>)}}
    \cup {PasswordRequest("login", Malformed, None, None),
          PasswordRequest("login", LoginBody("test@example.com", "password123"), None,
                          Header(<<Word("Bearer"), Garbage>>))}

\* The hash requests followed: no iterations field, and zero, negative, huge, fractional
\* and non-numeric ones.
HashRequests ==
    {PasswordRequest("hash", HashBody("test-password", iterations), None, None) :
       iterations \in {None, Num(0), Num(0 - 1), Num(999999), NumAndHalf(5000),
                       Str(<<"a", "b", "c">>)}}

\* The JWT requests served next to the password requests.
JwtRequests ==
    {Inbound("POST", "login", "HS256", None, LoginBody("test@example.com", "password123")),
     Inbound("GET", "jwks", "RS256", None, None)}

\* A slot with no request in it.
FreeLogin ==
    [stage |-> "free", req |-> None, user |-> None, salt |-> None, hashes |-> <<>>,
     resp |-> None]

InitPassword ==
    /\ env = FullEnv
    /\ now = 0
    /\ wallet = {}
    /\ pc = "idle"
    /\ req = None
    /\ resp = None
    /\ ctx = NoCtx
    /\ used = {}
    /\ LogIdle
    /\ slots = <<>>
    /\ userStore = {}
    /\ logins = [i \in LoginSlot |-> FreeLogin]

\* A request to a password route comes in.
PasswordArrive(i) ==
    /\ logins[i].stage = "free"
    /\ \E r \in LoginRequests \cup HashRequests :
         logins' = [logins EXCEPT ![i] = [FreeLogin EXCEPT !.stage = "received", !.req = r]]
    /\ UNCHANGED <<jwtvars, logvars, slots, userStore>>

\* Mutant of loginStart: an unknown email is answered at once, with no dummy hash.
loginStartNoDummy(i) ==
    /\ logins[i].stage = "received"
    /\ logins[i].req.route = "login"
    /\ LET r    == logins[i].req
           safe == safeIterations(r.iterationsParam)
           user == storeGet(userStore, r.body.email)
       IN  IF r.body.kind = "malformed"
           THEN logins' = [logins EXCEPT ![i] =
                             [@ EXCEPT !.stage = "done",
                                       !.resp = onError(PlainError("Unexpected token"))]]
           ELSE IF user = None /\ r.body.email = testEmail(env)
           THEN \E salt \in Salts :
                  logins' = [logins EXCEPT ![i] =
                               [@ EXCEPT !.stage = "registering", !.salt = Word(salt),
                                         !.hashes = <<safe>>]]
           ELSE IF user = None
           THEN logins' = [logins EXCEPT ![i] =
                             [@ EXCEPT !.stage = "done", !.resp = authenticationFailed]]
           ELSE logins' = [logins EXCEPT ![i] =
                             [@ EXCEPT !.stage = "verifying", !.user = user,
                                       !.hashes = <<user.iterations>>]]
    /\ UNCHANGED <<jwtvars, logvars, slots, userStore>>

\* post('/login') from the parsed body to its first hashPassword call: the limits, the
\* read of the store, and the branch taken.
loginStart(i) ==
    /\ logins[i].stage = "received"
    /\ logins[i].req.route = "login"
    /\ LET r    == logins[i].req
           safe == safeIterations(r.iterationsParam)
           user == storeGet(userStore, r.body.email)
       IN  IF r.body.kind = "malformed"
           THEN logins' = [logins EXCEPT ![i] =
                             [@ EXCEPT !.stage = "done",
                                       !.resp = onError(PlainError("Unexpected token"))]]
           ELSE IF user = None /\ r.body.email = testEmail(env)
           THEN \E salt \in Salts :
                  logins' = [logins EXCEPT ![i] =
                               [@ EXCEPT !.stage = "registering", !.salt = Word(salt),
                                         !.hashes = <<safe>>]]
           ELSE IF user = None
           THEN logins' = [logins EXCEPT ![i] =
                             [@ EXCEPT !.stage = "dummy", !.hashes = <<safe>>]]
           ELSE logins' = [logins EXCEPT ![i] =
                             [@ EXCEPT !.stage = "verifying", !.user = user,
                                       !.hashes = <<user.iterations>>]]
    /\ UNCHANGED <<jwtvars, logvars, slots, userStore>>

\* The hash of the registration is there: the record is built and put in the store, and
\* verifyPassword is called with it.
loginRegister(i) ==
    /\ logins[i].stage = "registering"
    /\ LET r            == logins[i].req
           safe         == safeIterations(r.iterationsParam)
           passwordHash == hashPassword(testPassword(env), logins[i].salt.text, safe)
           user         == StoredUser("user-1", testEmail(env), passwordHash.hash,
                                      saltToBase64(logins[i].salt.text), safe)
       IN  IF ~passwordHash.ok
           THEN /\ logins' = [logins EXCEPT ![i] =
                                [@ EXCEPT !.stage = "done",
                                          !.resp = onError(PlainError(passwordHash.error))]]
                /\ UNCHANGED userStore
           ELSE /\ userStore' = storeSet(userStore, r.body.email, user)
                /\ logins' = [logins EXCEPT ![i] =
                                [@ EXCEPT !.stage = "verifying", !.user = user,
                                          !.hashes = Append(@, user.iterations)]]
    /\ UNCHANGED <<jwtvars, logvars, slots>>

\* The dummy hash for an unknown email is there: 401.
loginDummy(i) ==
    /\ logins[i].stage = "dummy"
    /\ \E dummySalt \in Salts :
         LET r      == logins[i].req
             result == hashPassword(r.body.password, dummySalt,
                                    safeIterations(r.iterationsParam))
         IN  logins' = [logins EXCEPT ![i] =
                          [@ EXCEPT !.stage = "done",
                                    !.resp = IF result.ok THEN authenticationFailed
                                             ELSE onError(PlainError(result.error))]]
    /\ UNCHANGED <<jwtvars, logvars, slots, userStore>>

\* Mutant of loginVerify: the password is checked with the iteration count of the request in
\* place of the one in the record.
loginVerifyRequestCount(i) ==
    /\ logins[i].stage = "verifying"
    /\ LET r       == logins[i].req
           user    == logins[i].user
           isValid == verifyPassword(r.body.password, base64ToSalt(user.salt),
                                     user.passwordHash,
                                     safeIterations(r.iterationsParam))
       IN  logins' = [logins EXCEPT ![i] =
                        [@ EXCEPT !.stage = "done",
                                  !.resp = IF ~isValid.ok
                                           THEN onError(PlainError(isValid.error))
                                           ELSE IF ~isValid.valid THEN authenticationFailed
                                           ELSE authenticationSuccessful(user)]]
    /\ UNCHANGED <<jwtvars, logvars, slots, userStore>>

\* verifyPassword is there: 401 or 200, from the record the request holds.
loginVerify(i) ==
    /\ logins[i].stage = "verifying"
    /\ LET r       == logins[i].req
           user    == logins[i].user
           isValid == verifyPassword(r.body.password, base64ToSalt(user.salt),
                                     user.passwordHash, user.iterations)
       IN  logins' = [logins EXCEPT ![i] =
                        [@ EXCEPT !.stage = "done",
                                  !.resp = IF ~isValid.ok
                                           THEN onError(PlainError(isValid.error))
                                           ELSE IF ~isValid.valid THEN authenticationFailed
                                           ELSE authenticationSuccessful(user)]]
    /\ UNCHANGED <<jwtvars, logvars, slots, userStore>>

\* post('/hash'): the limits, one hashPassword call, the answer.
hash(i) ==
    /\ logins[i].stage = "received"
    /\ logins[i].req.route = "hash"
    /\ \E salt \in Salts :
         LET body       == logins[i].req.body
             iterations == hashIterations(body)
             result     == hashPassword(body.password, salt, iterations)
         IN  logins' = [logins EXCEPT ![i] =
                          [@ EXCEPT !.stage = "done", !.hashes = <<iterations>>,
                                    !.resp = IF result.ok THEN hashed(iterations)
                                             ELSE onError(PlainError(result.error))]]
    /\ UNCHANGED <<jwtvars, logvars, slots, userStore>>

\* The response leaves.
PasswordSend(i) ==
    /\ logins[i].stage = "done"
    /\ logins' = [logins EXCEPT ![i] = FreeLogin]
    /\ UNCHANGED <<jwtvars, logvars, slots, userStore>>

\* Mutant of ServeJwt: serving a JWT request empties the user store.
ServeJwtClearing ==
    /\ \E r \in JwtRequests :
         /\ req' = r
         /\ resp' = Downstream(env, r, now).resp
    /\ userStore' = {}
    /\ UNCHANGED <<env, now, wallet, pc, ctx, used, logvars, slots, logins>>

\* A JWT request is served while password requests are in flight.
ServeJwt ==
    /\ \E r \in JwtRequests :
         /\ req' = r
         /\ resp' = Downstream(env, r, now).resp
    /\ UNCHANGED <<env, now, wallet, pc, ctx, used, logvars, slots, userStore, logins>>

NextPassword ==
    \/ \E i \in LoginSlot :
         \/ PasswordArrive(i)
         \/ loginStart(i)
         \/ loginRegister(i)
         \/ loginDummy(i)
         \/ loginVerify(i)
         \/ hash(i)
         \/ PasswordSend(i)
    \/ ServeJwt

SpecPassword == InitPassword /\ [][NextPassword]_vars

\* The login requests that have been answered.
LoginAnswered(i) == logins[i].stage = "done" /\ logins[i].req.route = "login"

\* A credential decision: the login was answered 200 or 401.
Decided(i) == LoginAnswered(i) /\ logins[i].resp.status \in {200, 401}

\* An iteration count within the limits.
WithinLimits(iterations) ==
    /\ ~iterations.nan
    /\ ~iterations.half
    /\ iterations.int >= 1000
    /\ iterations.int <= 100000

\* The request found a record when it read the store (it made no registration).
FoundRecord(l) == l.user # None /\ Len(l.hashes) = 1

\* C25 (PBKDF2 iteration bound): every iteration count passed to hashPassword by a login
\* or a hash request is an integer from 1000 to 100000, whatever the iterations parameter
\* or field was.
C25_IterationBound ==
    \A i \in LoginSlot :
      \A n \in DOMAIN logins[i].hashes : WithinLimits(logins[i].hashes[n])

\* C26 (configuration and subsystem isolation): no step changes the configuration (key
\* material, test identity); serving a JWT request leaves userStore unchanged; a step of a
\* password request issues no token and sets no jwtPayload, no password response carries a
\* token, and a login with the right credentials is answered 200 whatever bearer token it
\* carries.
C26_Isolation ==
    /\ [][/\ env' = env
          /\ (req' # req \/ resp' # resp) => userStore' = userStore
          /\ logins' # logins => (wallet' = wallet /\ ctx' = ctx /\ used' = used)]_vars
    /\ [](\A i \in LoginSlot :
            logins[i].stage = "done" =>
              /\ "accessToken" \in DOMAIN logins[i].resp.body =>
                   /\ logins[i].resp.body.accessToken = None
                   /\ logins[i].resp.body.refreshToken = None
              /\ logins[i].req.auth # None => logins[i].resp.status = 200)

\* C26 witness: with a record in the store, a JWT login has been answered with its tokens
\* and a password login that carried a bearer token has been answered 200.
C26_Witness ==
    /\ userStore # {}
    /\ req # None /\ req.route = "login" /\ resp.status = 200
    /\ \E i \in LoginSlot :
         LoginAnswered(i) /\ logins[i].req.auth # None /\ logins[i].resp.status = 200

\* C27 as stated: every credential decision comes after a hashPassword call with the
\* iteration count of the request itself.  It does not when the record exists already.
C27_AsStated ==
    \A i \in LoginSlot :
      Decided(i) =>
        \E n \in DOMAIN logins[i].hashes :
          logins[i].hashes[n] = safeIterations(logins[i].req.iterationsParam)

\* C27 (hashing before a decision): every login answered 200 or 401 has made at least one
\* hashPassword call before, each with an iteration count within the limits: the count of
\* the request itself when no record was found (registration, dummy hash for an
\* unknown email), the count of the record when one was found.
C27_HashBeforeDecision ==
    \A i \in LoginSlot :
      Decided(i) =>
        /\ logins[i].hashes # <<>>
        /\ \A n \in DOMAIN logins[i].hashes : WithinLimits(logins[i].hashes[n])
        /\ logins[i].hashes[1] =
             IF FoundRecord(logins[i]) THEN logins[i].user.iterations
             ELSE safeIterations(logins[i].req.iterationsParam)

\* C27 witness: a login with an unknown email has been answered 401 after its dummy hash.
C27_Witness ==
    \E i \in LoginSlot :
      /\ Decided(i)
      /\ logins[i].req.body.email = "wrong@example.com"
      /\ logins[i].resp.status = 401
      /\ logins[i].hashes = <<Num(5000)>>

\* The user store holds at most one record, keyed by the test email, whose hash is the
\* hash of the test password with the salt and the iteration count of that record.
StoreInvariant ==
    /\ Cardinality(userStore) <= 1
    /\ \A u \in userStore :
         /\ u.email = testEmail(env)
         /\ hashPassword(testPassword(env), base64ToSalt(u.salt), u.iterations) =
              [ok |-> TRUE, hash |-> u.passwordHash, error |-> ""]

\* C28 (password store invariant): the store holds at most one record, for the test email
\* and from the test password; so a well-formed login with another email is answered 401,
\* and one with the test email is answered 200 exactly when its password is the test
\* password.
C28_StoreAndOutcome ==
    /\ StoreInvariant
    /\ \A i \in LoginSlot :
         (LoginAnswered(i) /\ logins[i].req.body.kind = "json") =>
           IF logins[i].req.body.email # testEmail(env)
           THEN logins[i].resp.status = 401
           ELSE IF logins[i].req.body.password = testPassword(env)
           THEN logins[i].resp.status = 200
           ELSE logins[i].resp.status = 401

\* C29 (concurrent first password logins): a login for the test email that read the store
\* before any record existed is answered 200 with the right password and 401 with a wrong
\* one, however it interleaves with other such logins, and the record in the store has
\* hash, salt and iteration count of one and the same request.
C29_ConcurrentFirstLogins ==
    /\ StoreInvariant
    /\ \A i \in LoginSlot :
         (LoginAnswered(i) /\ logins[i].req.body.kind = "json"
            /\ logins[i].req.body.email = testEmail(env) /\ ~FoundRecord(logins[i])) =>
           logins[i].resp.status =
             IF logins[i].req.body.password = testPassword(env) THEN 200 ELSE 401

\* C30 (stored iterations are fixed at registration): a login that found a record makes no
\* change to the store, calls hashPassword once, with the iteration count of the record it
\* found, and is answered 200 with that count as the reported iterations when its password
\* is the test password and 401 when it is not, whatever its iterations parameter.
C30_StoredIterationsFixed ==
    /\ [][\A i \in LoginSlot :
            (logins'[i] # logins[i] /\ logins'[i].stage \in {"verifying", "done"}
               /\ FoundRecord(logins'[i])) => userStore' = userStore]_vars
    /\ [](\A i \in LoginSlot :
            (logins[i].stage \in {"verifying", "done"} /\ FoundRecord(logins[i])) =>
              /\ logins[i].hashes = <<logins[i].user.iterations>>
              /\ WithinLimits(logins[i].user.iterations)
              /\ logins[i].stage = "done" =>
                   IF logins[i].req.body.password = testPassword(env)
                   THEN /\ logins[i].resp.status = 200
                        /\ logins[i].resp.body.iterations = logins[i].user.iterations
                   ELSE logins[i].resp.status = 401)

\* C30 witness: a login with iterations=abc found the record registered with 5000
\* iterations and has been answered 200, reporting 5000.
C30_Witness ==
    \E i \in LoginSlot :
      /\ LoginAnswered(i) /\ FoundRecord(logins[i])
      /\ logins[i].req.iterationsParam = Str(<<"a", "b", "c">>)
      /\ logins[i].user.iterations = Num(5000)
      /\ logins[i].resp.status = 200
      /\ logins[i].resp.body.iterations = Num(5000)
      /\ logins[i].user \in userStore

(* ----------------------------------------------------------------------- *)
(* Uniqueness and lifetime of issued tokens                                *)
(* ----------------------------------------------------------------------- *)

\* The algorithms whose signature is a function of key, header and claims (HMAC-SHA256,
\* RSASSA-PKCS1-v1_5).  An ECDSA signature also depends on a random nonce, which the token
\* model leaves out, so ES256 is left out of the comparison of tokens.
DeterministicAlgorithms == {"HS256", "RS256"}

\* C31 (issued tokens are unique): the tokens a login or refresh returns are different from
\* every token an earlier login or refresh of the same algorithm returned to the client,
\* also when both happen in the same clock second.
C31_IssuedUnique ==
    (Issued /\ req.alg \in DeterministicAlgorithms) => TokensOf(resp) \cap wallet = {}

\* C31, the case named in the claim: the pair a refresh returns differs from the token it
\* was given.
C31_RefreshDiffersFromLogin ==
    (Issued /\ req.route = "refresh" /\ req.alg \in DeterministicAlgorithms) =>
      Presented \notin TokensOf(resp)

\* The clock readings of a long session: those of Instants, and two beyond the expiry of the
\* refresh token of a login at 0.
LateInstants ==
    Instants \cup {secs(refreshTokenExpiry) + 1, 2 * secs(refreshTokenExpiry) - 1}

\* A client that logged in at 0 with HS256 and from then on only refreshes and verifies,
\* with the tokens it holds.
InitSliding ==
    /\ env \in Envs
    /\ now = 0
    /\ wallet = LogWallet
    /\ pc = "idle"
    /\ req = None
    /\ resp = None
    /\ ctx = NoCtx
    /\ used = {}
    /\ LogIdle
    /\ AuxIdle

TickLate ==
    /\ pc \in {"idle", "received"}
    /\ \E t \in LateInstants : t > now /\ now' = t
    /\ UNCHANGED <<env, wallet, pc, req, resp, ctx, used>>
    /\ UNCHANGED logvars
    /\ UNCHANGED auxvars

ArriveSession ==
    /\ pc = "idle"
    /\ \E route \in {"refresh", "verify"}, tok \in wallet : req' = Present(route, tok.hdr, tok)
    /\ pc' = "received"
    /\ UNCHANGED <<env, now, wallet, resp, ctx, used>>
    /\ UNCHANGED logvars
    /\ UNCHANGED auxvars

NextSliding == TickLate \/ ArriveSession \/ HandleRecording \/ Deliver

SpecSliding == InitSliding /\ [][NextSliding]_vars

\* C32 (refresh lifetime is sliding): the refresh token a refresh returns at time t is issued
\* at t and expires at t + 7 days, and its access token at t + 15 minutes, whatever the exp
\* of the presented refresh token; and a refresh token the client holds is exchanged for a
\* new pair at every time before its own exp, also later than login time + 7 days, so a
\* chain of refreshes has no upper bound on its lifetime.
C32_SlidingRefresh ==
    (Responded /\ req.route = "refresh") =>
      /\ resp.status = 200 =>
           /\ resp.body.refreshToken.claims.iat = now
           /\ resp.body.refreshToken.claims.exp = now + secs(refreshTokenExpiry)
           /\ resp.body.accessToken.claims.exp = now + secs(accessTokenExpiry)
      /\ (/\ Presented \in wallet
          /\ Presented.claims.type = "refresh"
          /\ now < Presented.claims.exp
          /\ env.JWT_HS256_SECRET # None) => resp.status = 200

\* C32 witness: later than login time + 7 days, a refresh token that itself came from a
\* refresh of the login's refresh token has been exchanged for a pair that expires later
\* still.
C32_Witness ==
    /\ Responded /\ req.route = "refresh" /\ resp.status = 200
    /\ now > secs(refreshTokenExpiry)
    /\ Presented.claims.iat > 0
    /\ \E first \in used : first \in LogWallet
    /\ resp.body.refreshToken.claims.exp > Presented.claims.exp

(* ----------------------------------------------------------------------- *)
(* Deployments without a test identity                                     *)
(* ----------------------------------------------------------------------- *)

\* The complete deployment, and those in which TEST_USER_EMAIL, TEST_USER_PASSWORD or both
\* are not set: reading an unset binding gives undefined.
IdentityEnvs ==
    {[FullEnv EXCEPT !.TEST_USER_EMAIL = email, !.TEST_USER_PASSWORD = password] :
       email \in {"test@example.com", Undefined}, password \in {"password123", Undefined}}

InitIdentity ==
    /\ env \in IdentityEnvs
    /\ now = 0
    /\ wallet = {}
    /\ pc = "idle"
    /\ req = None
    /\ resp = None
    /\ ctx = NoCtx
    /\ used = {}
    /\ LogIdle
    /\ AuxIdle

\* A login request arrives, with whatever body.
ArriveLogin ==
    /\ pc = "idle"
    /\ \E r \in {q \in Requests : q.route = "login"} : req' = r
    /\ pc' = "received"
    /\ UNCHANGED <<env, now, wallet, resp, ctx, used>>
    /\ UNCHANGED logvars
    /\ UNCHANGED auxvars

NextIdentity == ArriveLogin \/ Handle \/ Deliver

SpecIdentity == InitIdentity /\ [][NextIdentity]_vars

\* The JSON body of the answered login leaves out email or password.
OmitsCredential ==
    /\ req.body.kind = "json"
    /\ (req.body.email = Undefined \/ req.body.password = Undefined)

\* C33 (login requires presented credentials): a login whose body leaves out email or
\* password is never answered with tokens, in every deployment, those without
\* TEST_USER_EMAIL or TEST_USER_PASSWORD included.
C33_CredentialsRequired ==
    (Responded /\ req.route = "login" /\ OmitsCredential) =>
      /\ resp.status # 200
      /\ TokensOf(resp) = {}

(* ----------------------------------------------------------------------- *)
(* Content of the log entries                                              *)
(* ----------------------------------------------------------------------- *)

\* The entries of the request being answered that are waiting to be written or are stored.
OwnEntries == {w \in writes \cup rows : w.request_id = requestId}

\* C34 (log entry content): the status in the log entry of a request is the status of its
\* response; user_id and token_type are non-null only if the request passed the token
\* verification of its route, and then they are the sub and the type of the verified claims
\* of the token it presented; a request the middleware rejected is logged with status 401
\* and with null user_id and token_type.
C34_LogContent ==
    (Responded /\ req.method # "OPTIONS") =>
      \A w \in OwnEntries :
        /\ w.status = resp.status
        /\ (w.user_id # None \/ w.token_type # None) =>
             /\ ctx.verified /\ ctx.state = "Valid"
             /\ w.user_id = Word(Presented.claims.sub)
             /\ w.token_type = Word(Presented.claims.type)
        /\ (ctx.verified /\ ctx.state = "Valid") =>
             /\ w.user_id = Word(Presented.claims.sub)
             /\ w.token_type = Word(Presented.claims.type)
        /\ (req.route \in Routes \ {"login"} /\ ~ctx.handlerRan) =>
             /\ w.status = 401
             /\ w.user_id = None
             /\ w.token_type = None

\* C34 witness: the entry of a rejected request (401, no user) is stored, and the entry of a
\* verify that passed, with status 200, user-1 and type access, waits to be written.
C34_Witness ==
    /\ Responded /\ req.route = "verify" /\ resp.status = 200
    /\ \E w \in OwnEntries \cap writes :
         w.status = 200 /\ w.user_id = Word("user-1") /\ w.token_type = Word("access")
    /\ \E w \in rows :
         w.status = 401 /\ w.user_id = None /\ w.route \in Routes \ {"login"}

(* ----------------------------------------------------------------------- *)
(* Log endpoints, src/index.ts 138-160 and request-logger.ts 141-164       *)
(* ----------------------------------------------------------------------- *)

\* A request to a log endpoint, or to any other endpoint that is logged, with its limit
\* query parameter.
LogsRequest(method, route, limitParam) ==
    [req |-> Inbound(method, route, "", None, None), limitParam |-> limitParam]

\* The requests followed: GET /logs with no limit and with an in-range, zero, negative,
\* too large, non-numeric and empty one; POST /logs/clear; GET /health.
LogsRequests ==
    {LogsRequest("GET", "logs", limitParam) :
       limitParam \in {None, Str(<<"2">>), Str(<<"0">>), Str(<<"-", "5">>),
                       Str(<<"5", "0", "0", "0">>), Str(<<"a", "b", "c">>), Str(<<>>)}}
    \cup {LogsRequest("POST", "logs/clear", None), LogsRequest("GET", "health", None)}

\* A slot with no request in it.
FreeLogsSlot ==
    [stage |-> "free", req |-> None, limitParam |-> None, id |-> 0, limit |-> None,
     countBefore |-> 0, removed |-> 0, resp |-> None]

\* The bodies the log endpoints answer with.
LogsBody == [error |-> "", message |-> "", success |-> FALSE, count |-> 0, deleted |-> 0]

\* parseInt(c.req.query('limit') || '100', 10), then Math.min(limit, 1000)
logsLimit(limitParam) ==
    mathMin(parseInt(IF ToBoolean(limitParam) THEN limitParam
                     ELSE Str(<<"1", "0", "0">>), 10),
            Num(1000))

\* getRecentLogs(db, limit): SELECT ... LIMIT ?.  A limit that is no integer is refused by
\* the database, a negative one means no limit; the result here is the number of rows.
getRecentLogs(table, limit) ==
    IF limit.nan THEN [ok |-> FALSE, count |-> 0, error |-> "D1_ERROR"]
    ELSE IF limit.int < 0 \/ limit.int > Cardinality(table)
    THEN [ok |-> TRUE, count |-> Cardinality(table), error |-> ""]
    ELSE [ok |-> TRUE, count |-> limit.int, error |-> ""]

InitLogs ==
    /\ env = FullEnv
    /\ now = 0
    /\ wallet = {}
    /\ pc = "idle"
    /\ req = None
    /\ resp = None
    /\ ctx = NoCtx
    /\ used = {}
    /\ db \in {"absent", "bound"}
    /\ writes = {}
    /\ rows = {}
    /\ lost = {}
    /\ requestId = 1
    /\ userStore = {}
    /\ logins = <<>>
    /\ slots = [i \in Slot |-> FreeLogsSlot]

\* A request comes in; requestLogger gives it its request id.
LogsArrive(i) ==
    /\ slots[i].stage = "free"
    /\ requestId <= MaxRequests
    /\ \E r \in LogsRequests :
         slots' = [slots EXCEPT ![i] =
                     [FreeLogsSlot EXCEPT !.stage = "received", !.req = r.req,
                                          !.limitParam = r.limitParam, !.id = requestId]]
    /\ requestId' = requestId + 1
    /\ UNCHANGED <<jwtvars, db, writes, rows, lost, userStore, logins>>

\* get('/logs'): the limit, the query, the answer.
logs(i) ==
    /\ slots[i].stage = "received"
    /\ slots[i].req.route = "logs"
    /\ LET limit  == logsLimit(slots[i].limitParam)
           result == getRecentLogs(rows, limit)
       IN  slots' = [slots EXCEPT ![i] =
                       [@ EXCEPT !.stage = "answered",
                                 !.limit = IF db = "absent" THEN None ELSE limit,
                                 !.resp = IF db = "absent"
                                          THEN onError(PlainError("Cannot read properties"))
                                          ELSE IF ~result.ok
                                          THEN onError(PlainError(result.error))
                                          ELSE Json([LogsBody EXCEPT
                                                       !.count = result.count], 200)]]
    /\ UNCHANGED <<jwtvars, logvars, userStore, logins>>

\* clearLogs, first statement: SELECT COUNT(*)
clearLogsCount(i) ==
    /\ slots[i].stage = "received"
    /\ slots[i].req.route = "logs/clear"
    /\ slots' = [slots EXCEPT ![i] =
                   IF db = "absent"
                   THEN [@ EXCEPT !.stage = "answered",
                                  !.resp = onError(PlainError("Cannot read properties"))]
                   ELSE [@ EXCEPT !.stage = "counted",
                                  !.countBefore = Cardinality(rows)]]
    /\ UNCHANGED <<jwtvars, logvars, userStore, logins>>

\* clearLogs, second statement: DELETE FROM request_logs, then the answer with the count
\* read before.  removed remembers how many rows the DELETE took away (history only).
clearLogsDelete(i) ==
    /\ slots[i].stage = "counted"
    /\ rows' = {}
    /\ slots' = [slots EXCEPT ![i] =
                   [@ EXCEPT !.stage = "answered", !.removed = Cardinality(rows),
                             !.resp = Json([LogsBody EXCEPT !.success = TRUE,
                                                            !.deleted = slots[i].countBefore],
                                           200)]]
    /\ UNCHANGED <<jwtvars, db, writes, lost, requestId, userStore, logins>>

\* get('/health')
health(i) ==
    /\ slots[i].stage = "received"
    /\ slots[i].req.route = "health"
    /\ slots' = [slots EXCEPT ![i] =
                   [@ EXCEPT !.stage = "answered", !.resp = Json(LogsBody, 200)]]
    /\ UNCHANGED <<jwtvars, logvars, userStore, logins>>

\* requestLogger after next(): the entry is handed to waitUntil if DB is bound, and the
\* response leaves.
LogsFinally(i) ==
    /\ slots[i].stage = "answered"
    /\ writes' = IF db # "absent"
                 THEN writes \cup {RequestLog(slots[i].id, slots[i].req,
                                              slots[i].resp.status, None)}
                 ELSE writes
    /\ slots' = [slots EXCEPT ![i] = FreeLogsSlot]
    /\ UNCHANGED <<jwtvars, db, rows, lost, requestId, userStore, logins>>

NextLogs ==
    \/ \E i \in Slot :
         \/ LogsArrive(i)
         \/ logs(i)
         \/ clearLogsCount(i)
         \/ clearLogsDelete(i)
         \/ health(i)
         \/ LogsFinally(i)
    \/ SaveLogOk
    \/ SaveLogFail

SpecLogs == InitLogs /\ [][NextLogs]_vars

\* C35 (log query limit): whatever the limit parameter of GET /logs, the row limit handed
\* to getRecentLogs is an integer from 0 to 1000, and the response holds no more entries
\* than that.
C35_LimitBound ==
    \A i \in Slot :
      (/\ slots[i].stage = "answered"
       /\ slots[i].req.route = "logs"
       /\ slots[i].limit # None) =>
        /\ ~slots[i].limit.nan
        /\ ~slots[i].limit.half
        /\ slots[i].limit.int >= 0
        /\ slots[i].limit.int <= 1000
        /\ slots[i].resp.status = 200
        /\ slots[i].resp.body.count <= slots[i].limit.int

\* C36 (clearLogs accounting): the deleted count POST /logs/clear answers with is the
\* number of rows its DELETE removed, however the log writes of other requests interleave.
C36_DeletedCount ==
    \A i \in Slot :
      (/\ slots[i].stage = "answered"
       /\ slots[i].req.route = "logs/clear"
       /\ slots[i].resp.status = 200) =>
        slots[i].resp.body.deleted = slots[i].removed

====
